---- MODULE Spec2Model ----
(***************************************************************************)
(* Tool-calling conversation loops of chainlit-blank:                      *)
(*   core/llm/responses_api.py  handle_responses_api  (stateful responses) *)
(*   core/llm/anthropic.py      handle_anthropic_api  (alternate vendor)   *)
(* and its tool registries:                                                *)
(*   core/llm/tooling.py        ToolRegistry (cached schemas)              *)
(*   core/tooling.py            ToolRegistry (schema lists)                *)
(* One turn is modelled per behaviour.  The provider and the registered    *)
(* callables are the environment: every provider response, every provider  *)
(* rejection and every outcome of a callable is a nondeterministic input.  *)
(* Python dicts are functions over their keys, so "the request has no      *)
(* tools field" is  "tools" \notin DOMAIN request.                         *)
(***************************************************************************)
EXTENDS Integers, Sequences, FiniteSets, TLC

\* ------------------------------------------------------------------ bounds
\* largest max_tool_call_depth a caller passes
MaxDepthBound == 3
\* largest number of tool calls in one provider response
MaxCalls == 2
\* the alternate vendor stops asking for tools once this many requests were
\* issued in the turn
MaxProviderRequests == 3
\* registry methods called in one behaviour
MaxOps == 4
\* parameters of a decorated function
MaxParams == 2
\* tools in a list handed to prepare_tools_for_api
MaxTools == 2

\* ------------------------------------------------------------ constants
\* default of max_tool_call_depth
DefaultMaxToolCallDepth == 3

\* --------------------------------------------------------- python values
None == "None"
EmptyDict == [k \in {} |-> None]
Put(d, k, v) == (k :> v) @@ d
Pop(d, k) == [f \in DOMAIN d \ {k} |-> d[f]]
Truthy(s) == s # None /\ s # ""

RECURSIVE Concat(_)
Concat(s) == IF s = <<>> THEN "" ELSE Head(s) \o Concat(Tail(s))

RECURSIVE SelectSeq2(_, _)
\* the subsequence of s at the positions whose flag in keep is TRUE
SelectSeq2(s, keep) ==
    IF s = <<>> THEN <<>>
    ELSE (IF Head(keep) THEN <<Head(s)>> ELSE <<>>) \o SelectSeq2(Tail(s), Tail(keep))

\* ------------------------------------------------------------ callables
\* What a registered callable does when invoked with keyword arguments.
\* tools/date_and_time.py: today() returns an ISO date string.
TodayValue == [pytype |-> "str", str |-> "2026-11-01T00:00:00Z",
               json |-> "\"2026-11-01T00:00:00Z\""]
InfoValue == [pytype |-> "dict", str |-> "{'day': 1}", json |-> "{\"day\": 1}"]

\* A python function object is the record of its attributes; body says what
\* a call of it does, signature lists its parameters.  A parameter is
\* [name, type, metadata, default]: type is the annotated python type (the
\* __origin__ of an Annotated one, "empty" without annotation), metadata the
\* __metadata__ of an Annotated annotation (<<>> otherwise), default the
\* default value ("empty" without one).
Function(name, doc, body) ==
    [__name__ |-> name, __doc__ |-> doc, body |-> body, signature |-> <<>>]

Parameter(name, type, metadata, default) ==
    [name |-> name, type |-> type, metadata |-> metadata, default |-> default]

WithSignature(func, signature) == [func EXCEPT !.signature = signature]

\* tooling.py TYPE_MAP.get(t, "string")
TYPE_MAP(t) ==
    CASE t = "str" -> "string"
      [] t = "int" -> "integer"
      [] t = "float" -> "number"
      [] t = "bool" -> "boolean"
      [] t = "list" -> "array"
      [] t = "dict" -> "object"
      [] OTHER -> "string"

\* hasattr(param.annotation, '__metadata__')
HasMetadata(param) == param.metadata # <<>>

\* a loop that requires the parameters without a default only
RequiredWithoutDefault(param) == param.default = "empty"

\* tooling.py lines 51-64: the parameter is appended to required
IsRequired(param) == HasMetadata(param) \/ param.default = "empty"

\* tooling.py lines 47-64: the loop over signature.parameters
PropertyOf(param) ==
    IF HasMetadata(param)
    THEN [type |-> TYPE_MAP(param.type), description |-> param.metadata[1]]
    ELSE [type |-> TYPE_MAP(param.type)]

Parameters(signature) ==
    [type |-> "object",
     properties |-> [n \in {signature[i].name : i \in 1..Len(signature)} |->
                        PropertyOf(signature[CHOOSE i \in 1..Len(signature) :
                                                signature[i].name = n])],
     required |-> LET keep == SelectSeq2(signature,
                                 [i \in 1..Len(signature) |-> IsRequired(signature[i])])
                  IN  [i \in 1..Len(keep) |-> keep[i].name]]

\* tooling.py llm_tool: the decorator attaches the three schemas
llm_tool(func) ==
    LET parameters == Parameters(func.signature) IN
    [openai_tool |-> [type |-> "function", name |-> func.__name__,
                      function |-> [description |-> func.__doc__,
                                    parameters |-> parameters]],
     anthropic_tool |-> [name |-> func.__name__, description |-> func.__doc__,
                         input_schema |-> [type |-> "object",
                                           properties |-> parameters.properties,
                                           required |-> parameters.required]],
     tool |-> [name |-> func.__name__, description |-> func.__doc__,
               parameters |-> parameters]] @@ func

today == llm_tool(Function("today",
                           "Return the current date and time in ISO format.",
                           "today"))
info == llm_tool(Function("info", "Return the day of the month.", "info"))
boom == llm_tool(Function("boom", "Always fails.", "boom"))

\* ------------------------------------------------------------- registry
\* ToolRegistry._tools is a dict: the sequence of its items in insertion
\* order, one item per key
Item(name, func) == [name |-> name, func |-> func]
Names(tools_) == {tools_[i].name : i \in 1..Len(tools_)}

\* a lookup by the name of the function instead of the key
FindByFunctionName(tools_, name) ==
    {i \in 1..Len(tools_) : tools_[i].func.__name__ = name}

\* name in self._tools, self._tools[name]: the position of the key
Find(tools_, name) == {i \in 1..Len(tools_) : tools_[i].name = name}

\* self._tools[name]
GetItem(tools_, name) == tools_[CHOOSE i \in Find(tools_, name) : TRUE].func

\* self._tools[name] = func: a key the dict holds keeps its position
SetItem(tools_, name, func) ==
    IF name \in Names(tools_)
    THEN [i \in 1..Len(tools_) |->
             IF tools_[i].name = name THEN Item(name, func) ELSE tools_[i]]
    ELSE Append(tools_, Item(name, func))

\* an unregister that leaves the dict as it is
KeepItems(tools_, name) == tools_

\* del self._tools[name]
DelItem(tools_, name) ==
    SelectSeq2(tools_, [i \in 1..Len(tools_) |-> tools_[i].name # name])

\* the callables bound in the registry (app.py registers 'today'); 'info'
\* returns a dict and 'boom' raises
RegisteredTools == <<Item("today", today), Item("info", info),
                     Item("boom", boom)>>

\* Types of tools that are handled internally by OpenAI
INTERNAL_TOOL_TYPES == {"file_search", "web_search", "web_search_preview",
                        "code_interpreter", "retrieval"}

has_tool(tools_, name) == Find(tools_, name) # {}

is_internal_tool(internal_, tool_type) == tool_type \in internal_

\* json.loads(arguments_json): the parsed value, or JSONDecodeError
json_loads(text) ==
    IF text = "{}" THEN [raised |-> FALSE, value |-> "object"]
    ELSE IF text = "[1]" THEN [raised |-> FALSE, value |-> "array"]
    ELSE [raised |-> TRUE, exc_type |-> "JSONDecodeError",
          exc |-> "Expecting property name: line 1 column 2 (char 1)"]

\* the classes an  except Exception  clause catches
IsException(exc_type) ==
    exc_type \in {"Exception", "KeyError", "ValueError", "TypeError",
                  "JSONDecodeError"}

\* func(**args): TypeError unless args is a mapping
Invoke(func, args) ==
    IF args # "object"
    THEN [raised |-> TRUE, exc_type |-> "TypeError", called |-> FALSE,
          exc |-> func.__name__ \o "() argument after ** must be a mapping"]
    ELSE IF func.body = "boom"
    THEN [raised |-> TRUE, exc_type |-> "Exception", called |-> TRUE,
          exc |-> "boom failed"]
    ELSE IF func.body = "info"
    THEN [raised |-> FALSE, called |-> TRUE, value |-> InfoValue]
    ELSE [raised |-> FALSE, called |-> TRUE, value |-> TodayValue]

\* outcome of  await tool_registry.execute_tool(name, args)
execute_tool(tools_, name, args) ==
    IF ~has_tool(tools_, name)
    THEN [raised |-> TRUE, exc_type |-> "KeyError", called |-> FALSE,
          exc |-> "Tool '" \o name \o "' not registered"]
    ELSE Invoke(GetItem(tools_, name), args)

\* ------------------------------------------------- stateful responses API
\* output items of a provider response
MessageItem == [type |-> "message", text |-> "hi"]
FileSearchItem == [type |-> "file_search", name |-> "file_search", id |-> "fs_1"]
FunctionCallItem(name, call_id, arguments) ==
    [type |-> "function_call", name |-> name, call_id |-> call_id,
     arguments |-> arguments]

\* what the provider asks for in one function call: a registered tool with
\* well-formed arguments, with ill-formed arguments, a tool returning a dict,
\* a tool that raises, a tool that is not registered, a call with no name
CallKinds ==
    {[name |-> "today", arguments |-> "{}"],
     [name |-> "today", arguments |-> "{bad"],
     [name |-> "info", arguments |-> "{}"],
     [name |-> "boom", arguments |-> "{}"],
     [name |-> "ghost", arguments |-> "{}"],
     [name |-> "", arguments |-> "{}"]}

\* the provider issues a fresh call_id to every function call
CallId(n, i) == "call_" \o ToString(n) \o "_" \o ToString(i)

\* the function calls the provider may list in its n-th response
FunctionCallLists(n) ==
    UNION {{[i \in 1..k |-> FunctionCallItem(kinds[i].name, CallId(n, i),
                                             kinds[i].arguments)] :
               kinds \in [1..k -> CallKinds]} : k \in 0..MaxCalls}

\* output of the n-th response: provider-internal items first, the function
\* calls, then the message; function calls only when the request had tools
Outputs(n, tools_) ==
    {pre \o calls \o post :
        pre \in {<<>>, <<FileSearchItem>>},
        calls \in IF tools_ # <<>> THEN FunctionCallLists(n) ELSE {<<>>},
        post \in {<<>>, <<MessageItem>>}}

ResponseId(n) == "resp_" \o ToString(n)

\* the n-th response of the provider in this turn
ProviderResponses(n, tools_) ==
    {[id |-> ResponseId(n), output |-> out,
      usage |-> [input_tokens |-> 10 + n, output_tokens |-> n]] :
        out \in Outputs(n, tools_)}

\* response.output_text: the text of the message items, concatenated
output_text(response_) ==
    Concat([i \in 1..Len(response_.output) |->
               IF response_.output[i].type = "message"
               THEN response_.output[i].text ELSE ""])

\* what the provider's rejection of a request says
ProviderRejections == {"rate limit exceeded", "tool_choice: Extra inputs are not permitted"}

\* extract_tool_info(item)['name']
extract_tool_info(item) ==
    [name |-> IF "name" \in DOMAIN item THEN item.name ELSE "",
     type |-> item.type]

\* ---------------------------------------------------------------- state
VARIABLES
    pc,                       \* position of the handler
    _tools,                   \* ToolRegistry._tools (the registered names)
    _internal_tool_types,     \* ToolRegistry._internal_tool_types
    user_input,               \* argument: a str or a list of messages
    instructions,             \* argument
    tools,                    \* argument: list of tool schemas
    previous_response_id,     \* argument of the current call
    current_tool_call_depth,  \* argument of the current call
    max_tool_call_depth,      \* argument
    in_flight,                \* the request the provider is working on
    nreq,                     \* provider requests issued in this turn
    response,                 \* last provider response received
    function_calls,           \* local function calls of that response
    idx,                      \* position of the for loop over the calls
    running,                  \* positions whose callable is being awaited
    invoked,                  \* call ids in the order their callable started
    tool_outputs,             \* results collected so far in this round
    result,                   \* the LLMResponse returned to the caller
    error,                    \* the exception raised to the caller
    frames,                   \* anthropic_params of the nested calls, innermost last
    message,                  \* last message received from the alternate vendor
    final_text,               \* text collected from its blocks
    tool_calls,               \* tool results collected from its blocks
    retrying,                 \* the request under way is a retry without tools
    retries,                  \* retry requests issued in this turn
    retry_rejections,         \* retry requests the provider rejected
    last_request,             \* the request the provider took last
    provider_mode,            \* how the alternate vendor behaves in this turn
    rejections,               \* the provider's rejections in this turn, in order
    model,                    \* argument: the model identifier
    _schema_cache,            \* ToolRegistry._schema_cache (core/llm/tooling.py)
    _cache_valid,             \* ToolRegistry._cache_valid
    _tool_schemas,            \* ToolRegistry._tool_schemas (core/tooling.py)
    last_call,                \* the registry method called last and its outcome
    observed,                 \* what get_schemas returned last, by provider,
                              \* and whether a register or unregister
                              \* was called since
    nops,                     \* registry methods called so far
    thread,                   \* the registry call each thread is inside
    api_key,                  \* AsyncLLMClient.api_key
    use_responses_api,        \* argument of AsyncLLMClient.response
    endpoint,                 \* the client method AsyncLLMClient awaited
    error_class,              \* class of the exception AsyncLLMClient raised
    tool_func,                \* the function of a tool module being imported
    internal_tool_types,      \* argument of ToolRegistry()
    id_mapping,               \* original to shortened ids of tool calls
    tool_responses,           \* what process_function_calls returned
    assistant_message         \* the assistant message with its tool_calls

vars == <<pc, _tools, _internal_tool_types, user_input, instructions,
          tools, previous_response_id, current_tool_call_depth,
          max_tool_call_depth, in_flight, nreq, response,
          function_calls, idx, running, invoked, tool_outputs, result, error,
          frames, message, final_text, tool_calls, retrying, retries,
          retry_rejections, last_request, provider_mode, rejections, model,
          _schema_cache, _cache_valid, _tool_schemas, last_call, observed,
          nops, thread, api_key, use_responses_api, endpoint, error_class,
          tool_func, internal_tool_types, id_mapping, tool_responses,
          assistant_message>>

\* the chat completions tool path of tool_handling.py
ChatToolsVars == <<id_mapping, tool_responses, assistant_message>>

\* the state of the client in llm.py and of a tool module, the argument
\* the registry was constructed with, and the chat completions tool path
ClientVars == <<api_key, use_responses_api, endpoint, error_class,
                tool_func, internal_tool_types, ChatToolsVars>>

\* the state of the registry beyond its tools
RegistryVars == <<_schema_cache, _cache_valid, _tool_schemas, last_call,
                  observed, nops, thread>>

NoRequest == EmptyDict
NoResult == EmptyDict
NoResponse == [id |-> None, output |-> <<>>,
               usage |-> [input_tokens |-> 0, output_tokens |-> 0]]

\* ------------------------------------------------------- caller's inputs
StrInput == [kind |-> "str", text |-> "What day is today?"]
ListInput(msgs) == [kind |-> "list", msgs |-> msgs]
UserMessage == [role |-> "user", content |-> "What day is today?"]
SystemMessage == [role |-> "system", content |-> "Be brief."]
DeveloperMessage == [role |-> "developer", content |-> "Talk like a pirate."]

UserInputs == {StrInput, ListInput(<<UserMessage>>),
               ListInput(<<SystemMessage, UserMessage>>)}

AnthropicUserInputs == UserInputs \cup {ListInput(<<DeveloperMessage, UserMessage>>)}

\* the schema llm_tool attaches as func.openai_tool for today()
TodaySchema == today.openai_tool

\* ------------------------------------------- handle_responses_api: request
DepthExceededResponse ==
    [text |-> "I've reached the maximum number of tool calls I can make for this request. Please provide more specific instructions if needed.",
     input_tokens |-> 0, output_tokens |-> 0, response_id |-> None]

HasSystemMessage(msgs) ==
    \E i \in 1..Len(msgs) : "role" \in DOMAIN msgs[i] /\ msgs[i].role = "system"

\* the call_id read from the key the chat-completions path uses
FunctionCallOutputsByToolCallId(outs) ==
    [i \in 1..Len(outs) |->
        [type |-> "function_call_output",
         call_id |-> IF "tool_call_id" \in DOMAIN outs[i]
                     THEN outs[i].tool_call_id ELSE None,
         output |-> IF "output" \in DOMAIN outs[i] THEN outs[i].output ELSE None]]

\* function_call_output items appended to the input for the tool outputs
FunctionCallOutputs(outs) ==
    [i \in 1..Len(outs) |->
        [type |-> "function_call_output",
         call_id |-> IF "id" \in DOMAIN outs[i] THEN outs[i].id
                     ELSE IF "tool_call_id" \in DOMAIN outs[i]
                          THEN outs[i].tool_call_id ELSE None,
         output |-> IF "output" \in DOMAIN outs[i] THEN outs[i].output ELSE None]]

\* response_params as built by lines 39-113
ResponseParams(input_, instructions_, tools_, prev_id, kw) ==
    LET base == [model |-> "gpt-4o", input |-> input_]
        withTools == IF tools_ # <<>> THEN Put(base, "tools", tools_) ELSE base
        withInstr ==
            IF Truthy(instructions_)
               /\ (input_.kind = "str" \/ ~HasSystemMessage(input_.msgs))
            THEN Put(withTools, "instructions", instructions_) ELSE withTools
        withPrev == IF Truthy(prev_id)
                    THEN Put(withInstr, "previous_response_id", prev_id)
                    ELSE withInstr
        outs == IF "tool_outputs" \in DOMAIN kw THEN kw.tool_outputs ELSE <<>>
        msgs == IF input_.kind = "str"
                THEN <<[role |-> "user", content |-> input_.text]>>
                ELSE input_.msgs
    IN  IF outs # <<>>
        THEN Put(withPrev, "input", ListInput(msgs \o FunctionCallOutputs(outs)))
        ELSE withPrev

\* a filter that looks at the name of the item only
IsNamedItem(item, internal_) == extract_tool_info(item).name # ""

\* lines 118-124: the items processed locally
IsLocalFunctionCall(item, internal_) ==
    /\ extract_tool_info(item).name # ""
    /\ item.type = "function_call"
    /\ ~is_internal_tool(internal_, item.type)

SelectFunctionCalls(out, internal_) ==
    SelectSeq2(out, [i \in 1..Len(out) |-> IsLocalFunctionCall(out[i], internal_)])

\* a result that keeps the text of the response only
ResponseTextOnly(response_) ==
    [text |-> output_text(response_), input_tokens |-> 0, output_tokens |-> 0,
     response_id |-> None]

\* a follow-up call that keeps the previous_response_id it was called with
CallerResponseId(response_, prev_id) == prev_id

\* line 208: the previous_response_id of the follow-up call
FollowUpResponseId(response_, prev_id) == response_.id

\* lines 216-221
ResponseAsIs(response_) ==
    [text |-> output_text(response_),
     input_tokens |-> response_.usage.input_tokens,
     output_tokens |-> response_.usage.output_tokens,
     response_id |-> response_.id]

\* line 30
DepthExceeded(depth, max) == depth > max

\* line 127
ProcessCalls(calls, depth, max) == calls # <<>> /\ depth < max

\* the recursive call made with the depth of its caller
SameDepth(depth) == depth

\* line 209: the depth passed to the recursive call
NextDepth(depth) == depth + 1

\* only the JSONDecodeError clause
ExceptJsonOnly(exc_type) == exc_type = "JSONDecodeError"

\* lines 170-191: the except clauses around the execution of one call
ExceptClauses(exc_type) ==
    exc_type = "JSONDecodeError" \/ IsException(exc_type)

\* the callables started together, as asyncio.gather would
StartWithoutAwait(running_) == TRUE

\* the await of one callable ends before the next call of the loop starts
MayStartCall(running_) == running_ = {}

\* line 158-161: the textual form of a tool's return value
FormatResult(value) == IF value.pytype = "dict" THEN value.json ELSE value.str

\* lines 141-183: the tool output recorded for one function call
ToolNotFoundOutput(call) ==
    [id |-> call.call_id,
     output |-> "Error: Tool '" \o call.name \o "' not found in registry"]

InvalidJsonOutput(call) ==
    [id |-> call.call_id,
     output |-> "Invalid JSON arguments for tool " \o call.name \o ": "
                    \o json_loads(call.arguments).exc]

ExecutedOutput(call, outcome) ==
    [id |-> call.call_id,
     output |-> IF outcome.raised
                THEN "Error executing tool " \o call.name \o ": " \o outcome.exc
                ELSE FormatResult(outcome.value)]

\* --------------------------------------------- handle_responses_api: steps
AnthLocals == <<frames, message, final_text, tool_calls, retrying, retries,
                retry_rejections, last_request, provider_mode>>

RespArgs == <<user_input, instructions, tools, max_tool_call_depth, _tools,
              _internal_tool_types, AnthLocals, model, RegistryVars,
              ClientVars>>

\* A call of handle_responses_api up to its first await (lines 29-116): the
\* depth check, then the request is built from the arguments and sent.
\* kw is the call's **kwargs.
RespCall(prev_id, depth, kw) ==
    /\ previous_response_id' = prev_id
    /\ current_tool_call_depth' = depth
    /\ IF DepthExceeded(depth, max_tool_call_depth)
       THEN /\ result' = DepthExceededResponse
            /\ pc' = "done"
            /\ UNCHANGED <<in_flight, nreq>>
       ELSE /\ in_flight' = ResponseParams(user_input, instructions, tools,
                                           prev_id, kw)
            /\ nreq' = nreq + 1
            /\ pc' = "awaiting"
            /\ UNCHANGED result

\* the caller's call: depth 0, no tool outputs
RespEnter ==
    /\ pc = "enter"
    /\ RespCall(previous_response_id, current_tool_call_depth, EmptyDict)
    /\ UNCHANGED <<RespArgs, rejections, response, function_calls, idx, running, invoked,
                   tool_outputs, error>>

\* the provider takes the request; the call that sent it is suspended in
\* line 116 and none of its locals below that line is assigned yet
ProviderReceives ==
    /\ pc = "awaiting"
    /\ pc' = "provider"
    /\ in_flight' = NoRequest
    /\ response' = NoResponse
    /\ function_calls' = <<>>
    /\ idx' = 1 /\ tool_outputs' = <<>> /\ invoked' = <<>>
    /\ UNCHANGED <<RespArgs, rejections, previous_response_id, current_tool_call_depth,
                   nreq, running, result, error>>

\* client.responses.create returns: lines 116-127 and 215-221
RespCreateReturns ==
    /\ pc = "provider"
    /\ \E r \in ProviderResponses(nreq, tools) :
         LET calls == SelectFunctionCalls(r.output, _internal_tool_types) IN
         /\ response' = r
         /\ function_calls' = calls
         /\ IF ProcessCalls(calls, current_tool_call_depth, max_tool_call_depth)
            THEN pc' = "tools" /\ UNCHANGED result
            ELSE pc' = "done" /\ result' = ResponseAsIs(r)
    /\ UNCHANGED <<RespArgs, rejections, previous_response_id, current_tool_call_depth,
                   in_flight, nreq, idx, running, invoked, tool_outputs, error>>

\* client.responses.create raises: nothing catches it
RespCreateRaises ==
    /\ pc = "provider"
    /\ \E e \in ProviderRejections :
          /\ error' = e
          /\ rejections' = Append(rejections, e)
    /\ pc' = "raised"
    /\ UNCHANGED <<RespArgs, previous_response_id, current_tool_call_depth,
                   in_flight, nreq, response, function_calls, idx, running,
                   invoked, tool_outputs, result>>

\* the for loop of line 133 is at a call it has not started yet
RespInLoop ==
    /\ pc = "tools" /\ idx <= Len(function_calls)
    /\ MayStartCall(running)

RespLoopArgs == <<RespArgs, rejections, previous_response_id, current_tool_call_depth,
                  in_flight, nreq, response, function_calls, result>>
RespLoopFrame == <<RespLoopArgs, error, pc>>

\* lines 141-148
RespToolNotFound ==
    /\ RespInLoop
    /\ ~has_tool(_tools, function_calls[idx].name)
    /\ tool_outputs' = Append(tool_outputs, ToolNotFoundOutput(function_calls[idx]))
    /\ idx' = idx + 1
    /\ UNCHANGED <<RespLoopFrame, running, invoked>>

\* lines 152, 170-176
RespToolInvalidJson ==
    /\ RespInLoop
    /\ has_tool(_tools, function_calls[idx].name)
    /\ json_loads(function_calls[idx].arguments).raised
    /\ IF ExceptClauses(json_loads(function_calls[idx].arguments).exc_type)
       THEN /\ tool_outputs' = Append(tool_outputs,
                                      InvalidJsonOutput(function_calls[idx]))
            /\ idx' = idx + 1
            /\ UNCHANGED <<pc, error>>
       ELSE /\ error' = json_loads(function_calls[idx].arguments).exc
            /\ pc' = "raised"
            /\ UNCHANGED <<tool_outputs, idx>>
    /\ UNCHANGED <<RespLoopArgs, running, invoked>>

\* line 155: the callable is invoked and awaited
RespToolInvoke ==
    /\ RespInLoop
    /\ has_tool(_tools, function_calls[idx].name)
    /\ ~json_loads(function_calls[idx].arguments).raised
    /\ running' = running \cup {idx}
    /\ invoked' = Append(invoked, function_calls[idx].call_id)
    /\ idx' = idx + 1
    /\ UNCHANGED <<RespLoopFrame, tool_outputs>>

\* lines 155-183: the awaited callable returns or raises
RespToolResolve ==
    /\ pc = "tools"
    /\ \E i \in running :
         LET call == function_calls[i]
             outcome == execute_tool(_tools, call.name,
                                     json_loads(call.arguments).value) IN
         /\ running' = running \ {i}
         /\ IF outcome.raised => ExceptClauses(outcome.exc_type)
            THEN /\ tool_outputs' = Append(tool_outputs,
                                           ExecutedOutput(call, outcome))
                 /\ UNCHANGED <<pc, error>>
            ELSE /\ error' = outcome.exc
                 /\ pc' = "raised"
                 /\ UNCHANGED tool_outputs
    /\ UNCHANGED <<RespLoopArgs, idx, invoked>>

\* lines 193-221: after the loop, the recursive call with the tool outputs
RespContinue ==
    /\ pc = "tools"
    /\ idx > Len(function_calls) /\ running = {}
    /\ IF tool_outputs # <<>>
       THEN RespCall(FollowUpResponseId(response, previous_response_id),
                     NextDepth(current_tool_call_depth),
                     [tool_outputs |-> tool_outputs])
       ELSE /\ result' = ResponseAsIs(response)
            /\ pc' = "done"
            /\ UNCHANGED <<previous_response_id, current_tool_call_depth,
                           in_flight, nreq>>
    /\ UNCHANGED <<RespArgs, rejections, response, function_calls, idx, running, invoked,
                   tool_outputs, error>>

\* ------------------------------------------------ alternate vendor: data
TextBlock == [type |-> "text", text |-> "Let me check."]
ToolUseBlock(name, id) ==
    [type |-> "tool_use", name |-> name, id |-> id, input |-> "object"]

\* the tools the vendor asks for: registered, raising, not registered
ToolUseNames == {"today", "boom", "ghost"}

ToolUseId(n, i) == "toolu_" \o ToString(n) \o "_" \o ToString(i)

\* the tool_use blocks of the n-th message
ToolUseLists(n) ==
    UNION {{[i \in 1..k |-> ToolUseBlock(names[i], ToolUseId(n, i))] :
               names \in [1..k -> ToolUseNames]} : k \in 1..MaxCalls}

\* how the vendor behaves in a turn: "any" answers anything; "keeps_calling"
\* answers every request that offers tools with one call of 'today', until
\* the turn has gone two requests past the default depth limit
ProviderModes == {"any", "keeps_calling"}

\* content of the n-th message: text only, or text and tool_use blocks when
\* the request offered tools
Contents(n, offered, mode) ==
    IF mode = "keeps_calling"
    THEN IF offered /\ n < DefaultMaxToolCallDepth + 2
         THEN {<<TextBlock, ToolUseBlock("today", ToolUseId(n, 1))>>}
         ELSE {<<TextBlock>>}
    ELSE {<<>>, <<TextBlock>>}
            \cup IF offered /\ n < MaxProviderRequests
                 THEN {<<TextBlock>> \o uses : uses \in ToolUseLists(n)}
                 ELSE {}

ProviderMessages(n, offered, mode) ==
    {[content |-> c, usage |-> [input_tokens |-> 10 + n, output_tokens |-> n]] :
        c \in Contents(n, offered, mode)}

\* the rejections of a vendor in that mode
Rejections(mode) == IF mode = "keeps_calling" THEN {} ELSE ProviderRejections

NoMessage == [content |-> <<>>, usage |-> [input_tokens |-> 0, output_tokens |-> 0]]

\* "x" in str(e)
Contains(text, sub) ==
    \E i \in 1..(Len(text) - Len(sub) + 1) : SubSeq(text, i, i + Len(sub) - 1) = sub

\* the except clause retrying whatever the exception says
AnyException(e) == TRUE

\* line 144
IsToolRelated(e) ==
    Contains(e, "Extra inputs are not permitted") \/ Contains(e, "tool_choice")

\* a filter that drops the provider-internal tools only
IsNotInternalTool(tool) == tool.type \notin INTERNAL_TOOL_TYPES

\* tool_handling.py line 36: tool.get('type') == 'function'
IsFunctionTool(tool) == "type" \in DOMAIN tool /\ tool.type = "function"

\* tool_handling.py line 37: tool["function"]["name"] = tool['name']
WithFunctionName(tool) ==
    [tool EXCEPT !.function = Put(tool.function, "name", tool.name)]

\* tool_handling.py prepare_tools_for_api: the list handed to the API; the
\* None of lines 27, 40, 52 and 54 is written <<>>
prepare_tools_for_api(tools_list, api_type) ==
    IF tools_list = <<>> THEN <<>>
    ELSE IF api_type = "responses" THEN tools_list
    ELSE IF api_type = "completions"
    THEN LET kept == SelectSeq2(tools_list,
                                [i \in 1..Len(tools_list) |->
                                    IsFunctionTool(tools_list[i])])
         IN  [i \in 1..Len(kept) |-> WithFunctionName(kept[i])]
    ELSE IF api_type = "anthropic"
    THEN [i \in 1..Len(tools_list) |->
             [name |-> tools_list[i].name,
              description |-> tools_list[i].function.description,
              input_schema |-> tools_list[i].function.parameters]]
    ELSE <<>>

\* a loop that copies every message, whatever its role
CopyMessages(msgs, instructions_, acc) ==
    [acc EXCEPT !.messages =
        @ \o [i \in 1..Len(msgs) |->
                 [role |-> msgs[i].role, content |-> msgs[i].content]]]

\* lines 25-50: the message array and the system prompt of a call
RECURSIVE NormalizeMessages(_, _, _)
NormalizeMessages(msgs, instructions_, acc) ==
    IF msgs = <<>> THEN acc
    ELSE LET msg == Head(msgs)
             role == IF "role" \in DOMAIN msg THEN msg.role ELSE None
             content == IF "content" \in DOMAIN msg THEN msg.content ELSE ""
         IN  NormalizeMessages(Tail(msgs), instructions_,
                IF role \in {"system", "developer"}
                THEN IF content # "" /\ ~Truthy(instructions_)
                     THEN [acc EXCEPT !.system_prompt = content] ELSE acc
                ELSE IF role \in {"user", "assistant"}
                THEN [acc EXCEPT !.messages =
                         Append(@, [role |-> role, content |-> content])]
                ELSE [acc EXCEPT !.messages =
                         Append(@, [role |-> "user", content |-> content])])

PrepareInput(input_, instructions_) ==
    LET start == [system_prompt |-> IF Truthy(instructions_) THEN instructions_
                                    ELSE "You are a helpful assistant.",
                  messages |-> <<>>]
    IN  IF input_.kind = "str"
        THEN [start EXCEPT !.messages = <<[role |-> "user", content |-> input_.text]>>]
        ELSE NormalizeMessages(input_.msgs, instructions_, start)

\* lines 52-68
AnthropicParams(messages, system_prompt, tools_) ==
    LET base == [model |-> "claude-3-7-sonnet-latest", messages |-> messages,
                 system |-> system_prompt]
    IN  IF tools_ # <<>>
        THEN Put(Put(base, "tools", prepare_tools_for_api(tools_, "anthropic")),
                 "tool_choice", [type |-> "auto"])
        ELSE base

\* only the tools field removed
StripToolsOnly(params) == Pop(params, "tools")

\* lines 147-148
StripTools(params) == Pop(Pop(params, "tools"), "tool_choice")

\* lines 81-83, 151-155: the text of the text blocks
RECURSIVE TextOf(_)
TextOf(content) ==
    IF content = <<>> THEN ""
    ELSE (IF Head(content).type = "text" THEN Head(content).text ELSE "")
            \o TextOf(Tail(content))

\* lines 135-140, 157-162
AnthropicResult(text, message_) ==
    [text |-> text,
     input_tokens |-> message_.usage.input_tokens,
     output_tokens |-> message_.usage.output_tokens,
     response_id |-> None]

\* lines 110-120: the messages appended before the recursive call
FollowUpMessages(final_text_, tool_calls_) ==
    <<[role |-> "assistant", content |-> final_text_]>>
        \o [i \in 1..Len(tool_calls_) |->
               [role |-> "tool", content |-> tool_calls_[i].output,
                tool_call_id |-> tool_calls_[i].tool_call_id]]

Top(stack) == stack[Len(stack)]
Outer(stack) == SubSeq(stack, 1, Len(stack) - 1)

\* ---------------------------------------------- handle_anthropic_api: steps
AnthArgs == <<user_input, instructions, tools, _tools, _internal_tool_types,
              previous_response_id, current_tool_call_depth, max_tool_call_depth,
              response, function_calls, tool_outputs, provider_mode, model,
              RegistryVars, ClientVars>>

\* A call of handle_anthropic_api up to its first await (lines 25-75), made
\* from the calls in stack
AnthCall(input_, instructions_, stack) ==
    LET prepared == PrepareInput(input_, instructions_)
        params == AnthropicParams(prepared.messages, prepared.system_prompt, tools)
    IN  /\ frames' = Append(stack, params)
        /\ in_flight' = params
        /\ nreq' = nreq + 1
        /\ retrying' = FALSE
        /\ pc' = "awaiting"

\* the caller's call
AnthEnter ==
    /\ pc = "enter"
    /\ AnthCall(user_input, instructions, <<>>)
    /\ UNCHANGED <<AnthArgs, rejections, idx, running, invoked, result, error, message,
                   final_text, tool_calls, retries, retry_rejections, last_request>>

\* the vendor takes the request
AnthProviderReceives ==
    /\ pc = "awaiting"
    /\ pc' = "provider"
    /\ last_request' = in_flight
    /\ in_flight' = NoRequest
    /\ UNCHANGED <<AnthArgs, rejections, nreq, idx, running, invoked, result, error, frames,
                   message, final_text, tool_calls, retrying, retries,
                   retry_rejections>>

\* line 75: client.messages.create returns
AnthCreateReturns ==
    /\ pc = "provider" /\ ~retrying
    /\ \E m \in ProviderMessages(nreq, "tools" \in DOMAIN last_request,
                                   provider_mode) :
          message' = m
    /\ final_text' = "" /\ tool_calls' = <<>>
    /\ idx' = 1 /\ invoked' = <<>>
    /\ pc' = "blocks"
    /\ UNCHANGED <<AnthArgs, rejections, in_flight, nreq, running, result, error, frames,
                   retrying, retries, retry_rejections, last_request>>

AnthInLoop ==
    /\ pc = "blocks" /\ idx <= Len(message.content)
    /\ MayStartCall(running)

AnthLoopFrame == <<AnthArgs, rejections, in_flight, nreq, result, error, frames, message,
                   retrying, retries, retry_rejections, last_request, pc>>

\* lines 82-83
AnthTextBlock ==
    /\ AnthInLoop
    /\ message.content[idx].type = "text"
    /\ final_text' = final_text \o message.content[idx].text
    /\ idx' = idx + 1
    /\ UNCHANGED <<AnthLoopFrame, running, invoked, tool_calls>>

\* lines 92-94: a tool that is not registered is skipped
AnthToolNotFound ==
    /\ AnthInLoop
    /\ message.content[idx].type = "tool_use"
    /\ ~has_tool(_tools, message.content[idx].name)
    /\ idx' = idx + 1
    /\ UNCHANGED <<AnthLoopFrame, running, invoked, tool_calls, final_text>>

\* line 97: the callable is invoked and awaited
AnthToolInvoke ==
    /\ AnthInLoop
    /\ message.content[idx].type = "tool_use"
    /\ has_tool(_tools, message.content[idx].name)
    /\ running' = running \cup {idx}
    /\ invoked' = Append(invoked, message.content[idx].id)
    /\ idx' = idx + 1
    /\ UNCHANGED <<AnthLoopFrame, tool_calls, final_text>>

\* lines 97-105: the callable returns, or raises and the error is only logged
AnthToolResolve ==
    /\ pc = "blocks"
    /\ \E i \in running :
         LET block == message.content[i]
             outcome == execute_tool(_tools, block.name, block.input) IN
         /\ running' = running \ {i}
         /\ tool_calls' = IF outcome.raised THEN tool_calls
                          ELSE Append(tool_calls,
                                      [tool_call_id |-> block.id,
                                       output |-> outcome.value.str])
    /\ UNCHANGED <<AnthLoopFrame, idx, invoked, final_text>>

\* lines 107-140: after the loop, the recursive call or the return
AnthAfterLoop ==
    /\ pc = "blocks"
    /\ idx > Len(message.content) /\ running = {}
    /\ IF tool_calls # <<>>
       THEN LET extended == Top(frames).messages
                                \o FollowUpMessages(final_text, tool_calls)
                \* anthropic_params["messages"] is the list that was extended
                caller == [Top(frames) EXCEPT !.messages = extended]
            IN  /\ AnthCall(ListInput(extended), Top(frames).system,
                            Append(Outer(frames), caller))
                /\ UNCHANGED result
       ELSE /\ result' = AnthropicResult(final_text, message)
            /\ pc' = "done"
            /\ UNCHANGED <<frames, in_flight, nreq, retrying>>
    /\ UNCHANGED <<AnthArgs, rejections, idx, running, invoked, error, message, final_text,
                   tool_calls, retries, retry_rejections, last_request>>

\* lines 142-165: an exception e reaches the except clause of the innermost
\* call of stack; without a call left it reaches the caller
AnthExcept(e, stack) ==
    IF stack # <<>> /\ IsToolRelated(e)
    THEN LET stripped == StripTools(Top(stack)) IN
         /\ frames' = Append(Outer(stack), stripped)
         /\ in_flight' = stripped
         /\ nreq' = nreq + 1
         /\ retries' = retries + 1
         /\ retrying' = TRUE
         /\ pc' = "awaiting"
         /\ UNCHANGED error
    ELSE /\ error' = e
         /\ pc' = "raised"
         /\ frames' = <<>>
         /\ UNCHANGED <<in_flight, nreq, retries, retrying>>

\* line 75: client.messages.create raises
AnthCreateRaises ==
    /\ pc = "provider" /\ ~retrying
    /\ \E e \in Rejections(provider_mode) :
          /\ AnthExcept(e, frames)
          /\ rejections' = Append(rejections, e)
    /\ UNCHANGED <<AnthArgs, idx, running, invoked, result, message, final_text,
                   tool_calls, retry_rejections, last_request>>

\* lines 149-162: the retry returns
AnthRetryReturns ==
    /\ pc = "provider" /\ retrying
    /\ \E m \in ProviderMessages(nreq, "tools" \in DOMAIN last_request,
                                   provider_mode) :
          /\ message' = m
          /\ final_text' = TextOf(m.content)
          /\ result' = AnthropicResult(TextOf(m.content), m)
    /\ pc' = "done"
    /\ UNCHANGED <<AnthArgs, rejections, in_flight, nreq, idx, running, invoked, error,
                   frames, tool_calls, retrying, retries, retry_rejections,
                   last_request>>

\* line 149: the retry raises inside the except clause, so the exception
\* leaves this call and reaches the try of the call that awaits it (line 123)
AnthRetryRaises ==
    /\ pc = "provider" /\ retrying
    /\ \E e \in Rejections(provider_mode) :
          /\ AnthExcept(e, Outer(frames))
          /\ rejections' = Append(rejections, e)
    /\ retry_rejections' = retry_rejections + 1
    /\ UNCHANGED <<AnthArgs, idx, running, invoked, result, message, final_text,
                   tool_calls, last_request>>

\* ------------------------------------------------------------------ turns
\* text.startswith(prefix)
StartsWith(text, prefix) ==
    Len(text) >= Len(prefix) /\ SubSeq(text, 1, Len(prefix)) = prefix

\* a test of the model identifier that knows the 'claude' prefix only
IsClaudeModel(model_) == StartsWith(model_, "claude")

\* llm.py line 85: the models routed to the alternate vendor
IsAnthropicModel(model_) ==
    StartsWith(model_, "claude") \/ StartsWith(model_, "anthropic")

\* AsyncLLMClient is not in use and no tool module is being imported
NoClient ==
    /\ api_key = None /\ use_responses_api = TRUE /\ endpoint = None
    /\ error_class = None /\ tool_func = None
    /\ internal_tool_types = [given |-> FALSE]
    /\ id_mapping = EmptyDict /\ tool_responses = <<>>
    /\ assistant_message = [role |-> "assistant", content |-> "", tool_calls |-> <<>>]

\* ToolRegistry.__init__ beyond the tools: nothing cached, nothing called
NoCall == [method |-> None]
\* the caller has not asked for the schemas of the provider
NotObserved == [seen |-> FALSE, value |-> <<>>, current |-> FALSE]
NewRegistry ==
    /\ _schema_cache = EmptyDict
    /\ _cache_valid = EmptyDict
    /\ _tool_schemas = [openai |-> <<>>, anthropic |-> <<>>, generic |-> <<>>]
    /\ last_call = NoCall
    /\ observed = EmptyDict
    /\ nops = 0
    /\ thread = EmptyDict

InitResponses ==
    /\ pc = "enter"
    /\ _tools = RegisteredTools
    /\ _internal_tool_types = INTERNAL_TOOL_TYPES
    /\ user_input \in UserInputs
    /\ instructions \in {None, "Answer in French."}
    /\ tools \in {<<>>, <<TodaySchema>>}
    /\ previous_response_id \in {None, "resp_0"}
    /\ current_tool_call_depth = 0
    /\ max_tool_call_depth \in 0..MaxDepthBound
    /\ in_flight = NoRequest
    /\ nreq = 0
    /\ response = NoResponse
    /\ function_calls = <<>>
    /\ idx = 1
    /\ running = {}
    /\ invoked = <<>>
    /\ tool_outputs = <<>>
    /\ result = NoResult
    /\ error = None
    /\ frames = <<>>
    /\ message = NoMessage
    /\ final_text = ""
    /\ tool_calls = <<>>
    /\ retrying = FALSE
    /\ retries = 0
    /\ retry_rejections = 0
    /\ last_request = NoRequest
    /\ provider_mode = "any"
    /\ rejections = <<>>
    /\ model = "gpt-4o"
    /\ NewRegistry
    /\ NoClient

InitAnthropic ==
    /\ pc = "enter"
    /\ _tools = RegisteredTools
    /\ _internal_tool_types = INTERNAL_TOOL_TYPES
    /\ user_input \in AnthropicUserInputs
    /\ instructions \in {None, "Answer in French."}
    /\ tools \in {<<>>, <<TodaySchema>>}
    /\ previous_response_id = None
    /\ current_tool_call_depth = 0
    /\ max_tool_call_depth = DefaultMaxToolCallDepth
    /\ in_flight = NoRequest
    /\ nreq = 0
    /\ response = NoResponse
    /\ function_calls = <<>>
    /\ idx = 1
    /\ running = {}
    /\ invoked = <<>>
    /\ tool_outputs = <<>>
    /\ result = NoResult
    /\ error = None
    /\ frames = <<>>
    /\ message = NoMessage
    /\ final_text = ""
    /\ tool_calls = <<>>
    /\ retrying = FALSE
    /\ retries = 0
    /\ retry_rejections = 0
    /\ last_request = NoRequest
    /\ provider_mode \in ProviderModes
    /\ rejections = <<>>
    /\ model = "claude-3-opus-20240229"
    /\ NewRegistry
    /\ NoClient

NextResponses ==
    \/ RespEnter
    \/ ProviderReceives
    \/ RespCreateReturns
    \/ RespCreateRaises
    \/ RespToolNotFound
    \/ RespToolInvalidJson
    \/ RespToolInvoke
    \/ RespToolResolve
    \/ RespContinue

SpecResponses == InitResponses /\ [][NextResponses]_vars

NextAnthropic ==
    \/ AnthEnter
    \/ AnthProviderReceives
    \/ AnthCreateReturns
    \/ AnthCreateRaises
    \/ AnthTextBlock
    \/ AnthToolNotFound
    \/ AnthToolInvoke
    \/ AnthToolResolve
    \/ AnthAfterLoop
    \/ AnthRetryReturns
    \/ AnthRetryRaises

SpecAnthropic == InitAnthropic /\ [][NextAnthropic]_vars

\* a turn of either handler, as the model identifier routes it
InitTurn == InitResponses \/ InitAnthropic

NextTurn ==
    \/ ~IsAnthropicModel(model) /\ NextResponses
    \/ IsAnthropicModel(model) /\ NextAnthropic

SpecTurn == InitTurn /\ [][NextTurn]_vars

\* ------------------------------------ ToolRegistry (core/llm/tooling.py)
\* the names tools are registered, looked up and executed under
ToolNames == {"today", "info", "file_search"}

\* a second decorated function called today, a function that carries only
\* the generic schema, and a function that was never decorated
today_v2 == llm_tool(Function("today", "Return the date of today.", "today"))
lookup == [tool |-> [name |-> "lookup", description |-> "Look a day up.",
                     parameters |-> [type |-> "object", required |-> <<>>]]]
              @@ Function("lookup", "Look a day up.", "info")
undecorated == Function("plain", "Not a tool.", "today")

Functions == {today, today_v2, lookup, undecorated}

\* "ollama" stands for every provider without a schema of its own
Providers == {"openai", "anthropic", "ollama"}

hasattr(func, attr) == attr \in DOMAIN func

\* lines 181-194: the schemas built for a provider, one per item of _tools
\* in the order of the dict
_build_schema_cache(tools_, provider) ==
    [i \in 1..Len(tools_) |->
        LET func == tools_[i].func IN
        IF provider = "openai" /\ hasattr(func, "openai_tool")
        THEN func.openai_tool
        ELSE IF provider = "anthropic" /\ hasattr(func, "anthropic_tool")
        THEN func.anthropic_tool
        ELSE func.tool]

\* a register that leaves the validity flags as they are
KeepFlags(cache_valid) == cache_valid

\* an invalidation of the default provider only
InvalidateOpenAI(cache_valid) ==
    [p \in DOMAIN cache_valid |-> IF p = "openai" THEN FALSE ELSE cache_valid[p]]

\* lines 112-113 and 123-124: every provider that has a flag is invalidated
Invalidate(cache_valid) == [p \in DOMAIN cache_valid |-> FALSE]

\* a get_schemas that returns the list it held before the rebuild
get_schemas_before_rebuild(tools_, schema_cache, cache_valid, provider) ==
    LET rebuild == ~(IF provider \in DOMAIN cache_valid
                     THEN cache_valid[provider] ELSE FALSE)
    IN  [schema_cache |-> IF rebuild
                          THEN Put(schema_cache, provider,
                                   _build_schema_cache(tools_, provider))
                          ELSE schema_cache,
         cache_valid |-> Put(cache_valid, provider, TRUE),
         value |-> IF provider \in DOMAIN schema_cache
                   THEN schema_cache[provider] ELSE <<>>]

\* lines 164-179: what get_schemas leaves in the registry and returns
get_schemas(tools_, schema_cache, cache_valid, provider) ==
    LET cache1 == IF provider \notin DOMAIN schema_cache
                  THEN Put(schema_cache, provider, <<>>) ELSE schema_cache
        valid1 == IF provider \notin DOMAIN schema_cache
                  THEN Put(cache_valid, provider, FALSE) ELSE cache_valid
        rebuild == ~(IF provider \in DOMAIN valid1 THEN valid1[provider]
                     ELSE FALSE)
        cache2 == IF rebuild
                  THEN Put(cache1, provider,
                           _build_schema_cache(tools_, provider))
                  ELSE cache1
        valid2 == IF rebuild THEN Put(valid1, provider, TRUE) ELSE valid1
    IN  [schema_cache |-> cache2, cache_valid |-> valid2,
         value |-> cache2[provider]]

\* one more method of the registry may be called, and no call is under way
MayCall == pc = "registry" /\ nops < MaxOps /\ thread = EmptyDict

TurnVars == <<pc, user_input, instructions, tools, previous_response_id,
              current_tool_call_depth, max_tool_call_depth, in_flight, nreq,
              response, function_calls, idx, running, invoked, tool_outputs,
              result, error, AnthLocals, rejections, model, ClientVars>>

RegistryFrame == <<TurnVars, _tool_schemas, thread>>

\* the registry no longer vouches for what get_schemas returned
Outdated(observed_) ==
    [p \in DOMAIN observed_ |-> [observed_[p] EXCEPT !.current = FALSE]]

\* a register that checks nothing
AnyFunction(func) == TRUE

\* line 106
MayRegister(func) == hasattr(func, "tool")

\* lines 104-115
Register ==
    /\ MayCall
    /\ \E name \in ToolNames, func \in Functions :
         LET call == [method |-> "register", name |-> name,
                      func |-> func.__name__,
                      present |-> name \in Names(_tools)] IN
         IF ~MayRegister(func)
         THEN /\ last_call' = [raised |-> TRUE, exc_type |-> "ValueError"]
                                   @@ call
              /\ UNCHANGED <<_tools, _cache_valid>>
         ELSE /\ _tools' = SetItem(_tools, name, func)
              /\ _cache_valid' = Invalidate(_cache_valid)
              /\ last_call' = [raised |-> FALSE] @@ call
    /\ observed' = Outdated(observed)
    /\ nops' = nops + 1
    /\ UNCHANGED <<RegistryFrame, _schema_cache, _internal_tool_types>>

\* lines 117-126
Unregister ==
    /\ MayCall
    /\ \E name \in ToolNames :
         /\ IF name \in Names(_tools)
            THEN /\ _tools' = DelItem(_tools, name)
                 /\ _cache_valid' = Invalidate(_cache_valid)
            ELSE UNCHANGED <<_tools, _cache_valid>>
         /\ last_call' = [method |-> "unregister", name |-> name,
                          present |-> name \in Names(_tools),
                          raised |-> FALSE]
    /\ observed' = Outdated(observed)
    /\ nops' = nops + 1
    /\ UNCHANGED <<RegistryFrame, _schema_cache, _internal_tool_types>>

\* lines 164-179
GetSchemas ==
    /\ MayCall
    /\ \E provider \in Providers :
         LET after == get_schemas(_tools, _schema_cache, _cache_valid,
                                  provider) IN
         /\ _schema_cache' = after.schema_cache
         /\ _cache_valid' = after.cache_valid
         /\ last_call' = [method |-> "get_schemas", provider |-> provider,
                          raised |-> FALSE, value |-> after.value,
                          before |-> IF provider \in DOMAIN observed
                                     THEN observed[provider]
                                     ELSE NotObserved]
         /\ observed' = Put(observed, provider,
                            [seen |-> TRUE, value |-> after.value,
                             current |-> TRUE])
    /\ nops' = nops + 1
    /\ UNCHANGED <<RegistryFrame, _tools, _internal_tool_types>>

\* lines 209-224
ClearCache ==
    /\ MayCall
    /\ \E provider \in Providers \cup {None} :
         /\ IF Truthy(provider)
            THEN IF provider \in DOMAIN _schema_cache
                 THEN /\ _schema_cache' = Put(_schema_cache, provider, <<>>)
                      /\ _cache_valid' = Put(_cache_valid, provider, FALSE)
                 ELSE UNCHANGED <<_schema_cache, _cache_valid>>
            ELSE /\ _schema_cache' = EmptyDict
                 /\ _cache_valid' = EmptyDict
         /\ last_call' = [method |-> "clear_cache", provider |-> provider,
                          raised |-> FALSE]
    /\ nops' = nops + 1
    /\ UNCHANGED <<RegistryFrame, _tools, _internal_tool_types, observed>>

\* lines 140-147
AddInternalToolType ==
    /\ MayCall
    /\ \E tool_type \in {"today"} :
         /\ _internal_tool_types' = _internal_tool_types \cup {tool_type}
         /\ last_call' = [method |-> "add_internal_tool_type",
                          tool_type |-> tool_type, raised |-> FALSE]
    /\ nops' = nops + 1
    /\ UNCHANGED <<RegistryFrame, _tools, _schema_cache, _cache_valid,
                   observed>>

\* lines 226-260
ExecuteTool ==
    /\ MayCall
    /\ \E name \in ToolNames :
         LET outcome == execute_tool(_tools, name, "object") IN
         last_call' = [method |-> "execute_tool", name |-> name,
                       present |-> name \in Names(_tools),
                       raised |-> outcome.raised, called |-> outcome.called,
                       exc_type |-> IF outcome.raised THEN outcome.exc_type
                                    ELSE None]
    /\ nops' = nops + 1
    /\ UNCHANGED <<RegistryFrame, _tools, _schema_cache, _cache_valid,
                   _internal_tool_types, observed>>

\* no turn is under way
NoTurn ==
    /\ user_input = StrInput /\ instructions = None /\ tools = <<>>
    /\ previous_response_id = None /\ current_tool_call_depth = 0
    /\ max_tool_call_depth = DefaultMaxToolCallDepth
    /\ in_flight = NoRequest /\ nreq = 0 /\ response = NoResponse
    /\ function_calls = <<>> /\ idx = 1 /\ running = {} /\ invoked = <<>>
    /\ tool_outputs = <<>> /\ result = NoResult /\ error = None
    /\ frames = <<>> /\ message = NoMessage /\ final_text = ""
    /\ tool_calls = <<>> /\ retrying = FALSE /\ retries = 0
    /\ retry_rejections = 0 /\ last_request = NoRequest
    /\ provider_mode = "any" /\ rejections = <<>> /\ model = "gpt-4o"
    /\ NoClient

\* ToolRegistry(): lines 98-102
InitRegistry ==
    /\ pc = "registry"
    /\ _tools = <<>>
    /\ _internal_tool_types = INTERNAL_TOOL_TYPES
    /\ NewRegistry
    /\ NoTurn

NextRegistry ==
    \/ Register
    \/ Unregister
    \/ GetSchemas
    \/ ClearCache
    \/ AddInternalToolType
    \/ ExecuteTool

SpecRegistry == InitRegistry /\ [][NextRegistry]_vars

\* ---------------------------------------- ToolRegistry (core/tooling.py)
\* the registry app.py builds: it keeps one list of schemas per provider
CoreProviders == Providers \cup {"generic"}
\* what is handed to register: functions decorated with llm_tool, which
\* attaches the three schemas, and one that was not decorated
CoreFunctions == {today, today_v2, info, undecorated}

\* lines 127-129
core_get_schemas(tool_schemas, provider) ==
    IF provider \in DOMAIN tool_schemas THEN tool_schemas[provider]
    ELSE tool_schemas["generic"]

CoreMayCall == pc = "core_registry" /\ nops < MaxOps

CoreFrame == <<TurnVars, _schema_cache, _cache_valid, _internal_tool_types,
               observed, thread>>

\* lines 102-119
CoreRegister ==
    /\ CoreMayCall
    /\ \E name \in ToolNames, func \in CoreFunctions :
         LET call == [method |-> "register", name |-> name,
                      func |-> func.__name__,
                      present |-> name \in Names(_tools)] IN
         IF ~hasattr(func, "tool")
         THEN /\ last_call' = [raised |-> TRUE, exc_type |-> "ValueError"]
                                   @@ call
              /\ UNCHANGED <<_tools, _tool_schemas>>
         ELSE /\ _tools' = SetItem(_tools, name, func)
              /\ _tool_schemas' =
                    [openai |-> IF hasattr(func, "openai_tool")
                                THEN Append(_tool_schemas["openai"],
                                            func.openai_tool)
                                ELSE _tool_schemas["openai"],
                     anthropic |-> IF hasattr(func, "anthropic_tool")
                                   THEN Append(_tool_schemas["anthropic"],
                                               func.anthropic_tool)
                                   ELSE _tool_schemas["anthropic"],
                     generic |-> Append(_tool_schemas["generic"], func.tool)]
              /\ last_call' = [raised |-> FALSE] @@ call
    /\ nops' = nops + 1
    /\ UNCHANGED CoreFrame

\* lines 127-129
CoreGetSchemas ==
    /\ CoreMayCall
    /\ \E provider \in CoreProviders :
         last_call' = [method |-> "get_schemas", provider |-> provider,
                       raised |-> FALSE,
                       value |-> core_get_schemas(_tool_schemas, provider)]
    /\ nops' = nops + 1
    /\ UNCHANGED <<CoreFrame, _tools, _tool_schemas>>

\* lines 143-176
CoreExecuteTool ==
    /\ CoreMayCall
    /\ \E name \in ToolNames :
         LET outcome == execute_tool(_tools, name, "object") IN
         last_call' = [method |-> "execute_tool", name |-> name,
                       present |-> name \in Names(_tools),
                       raised |-> outcome.raised, called |-> outcome.called,
                       exc_type |-> IF outcome.raised THEN outcome.exc_type
                                    ELSE None]
    /\ nops' = nops + 1
    /\ UNCHANGED <<CoreFrame, _tools, _tool_schemas>>

\* ToolRegistry(): lines 94-100
InitCoreRegistry ==
    /\ pc = "core_registry"
    /\ _tools = <<>>
    /\ _internal_tool_types = {}
    /\ NewRegistry
    /\ NoTurn

NextCoreRegistry ==
    \/ CoreRegister
    \/ CoreGetSchemas
    \/ CoreExecuteTool

SpecCoreRegistry == InitCoreRegistry /\ [][NextCoreRegistry]_vars

\* ------------------- ToolRegistry (core/llm/tooling.py) shared by threads
\* Nothing in the registry serialises its methods.  A call of get_schemas,
\* register or unregister made by a thread proceeds in the steps below, and
\* the steps of different threads interleave.  thread maps each thread that
\* is inside a call to the frame of that call.
Threads == {1, 2}
\* what the threads register and ask for
ThreadToolNames == {"today", "info"}
ThreadFunctions == {today, info}
ThreadProviders == {"openai", "anthropic"}

ThreadMayCall(t) ==
    pc = "threads" /\ nops < MaxOps /\ t \notin DOMAIN thread

At(t, line) == pc = "threads" /\ t \in DOMAIN thread /\ thread[t].line = line

ThreadFrame == <<TurnVars, _tool_schemas, _internal_tool_types, observed>>

\* lines 164-175: the call makes sure the provider has a cache entry and
\* reads its validity flag
ThreadGetSchemas(t) ==
    /\ ThreadMayCall(t)
    /\ \E provider \in ThreadProviders :
         LET known == provider \in DOMAIN _schema_cache
             valid == IF known /\ provider \in DOMAIN _cache_valid
                      THEN _cache_valid[provider] ELSE FALSE IN
         /\ _schema_cache' = IF known THEN _schema_cache
                             ELSE Put(_schema_cache, provider, <<>>)
         /\ _cache_valid' = IF known THEN _cache_valid
                            ELSE Put(_cache_valid, provider, FALSE)
         /\ thread' = Put(thread, t,
                          [method |-> "get_schemas", provider |-> provider,
                           line |-> IF valid THEN "return" ELSE "build",
                           schemas |-> <<>>])
    /\ nops' = nops + 1
    /\ UNCHANGED <<ThreadFrame, _tools, last_call>>

\* lines 183-192: the schemas are built from the tools registered now
ThreadBuild(t) ==
    /\ At(t, "build")
    /\ thread' = [thread EXCEPT
                     ![t].schemas = _build_schema_cache(_tools,
                                                        thread[t].provider),
                     ![t].line = "store"]
    /\ UNCHANGED <<ThreadFrame, _tools, _schema_cache, _cache_valid,
                   last_call, nops>>

\* line 194
ThreadStore(t) ==
    /\ At(t, "store")
    /\ _schema_cache' = Put(_schema_cache, thread[t].provider,
                            thread[t].schemas)
    /\ thread' = [thread EXCEPT ![t].line = "set_valid"]
    /\ UNCHANGED <<ThreadFrame, _tools, _cache_valid, last_call, nops>>

\* line 177
ThreadSetValid(t) ==
    /\ At(t, "set_valid")
    /\ _cache_valid' = Put(_cache_valid, thread[t].provider, TRUE)
    /\ thread' = [thread EXCEPT ![t].line = "return"]
    /\ UNCHANGED <<ThreadFrame, _tools, _schema_cache, last_call, nops>>

\* line 179
ThreadReturn(t) ==
    /\ At(t, "return")
    /\ last_call' = [method |-> "get_schemas",
                     provider |-> thread[t].provider, raised |-> FALSE,
                     value |-> _schema_cache[thread[t].provider]]
    /\ thread' = Pop(thread, t)
    /\ UNCHANGED <<ThreadFrame, _tools, _schema_cache, _cache_valid, nops>>

\* lines 106-109: the map is updated
ThreadRegister(t) ==
    /\ ThreadMayCall(t)
    /\ \E name \in ThreadToolNames, func \in ThreadFunctions :
         /\ _tools' = SetItem(_tools, name, func)
         /\ thread' = Put(thread, t, [method |-> "register", name |-> name,
                                      line |-> "clear_flags"])
    /\ nops' = nops + 1
    /\ UNCHANGED <<ThreadFrame, _schema_cache, _cache_valid, last_call>>

\* lines 119-120: the name is removed if the map holds it
ThreadUnregister(t) ==
    /\ ThreadMayCall(t)
    /\ \E name \in ThreadToolNames :
         IF name \in Names(_tools)
         THEN /\ _tools' = DelItem(_tools, name)
              /\ thread' = Put(thread, t,
                               [method |-> "unregister", name |-> name,
                                line |-> "clear_flags"])
              /\ UNCHANGED last_call
         ELSE /\ last_call' = [method |-> "unregister", name |-> name,
                               present |-> FALSE, raised |-> FALSE]
              /\ UNCHANGED <<_tools, thread>>
    /\ nops' = nops + 1
    /\ UNCHANGED <<ThreadFrame, _schema_cache, _cache_valid>>

\* lines 112-113 and 123-124: the flags are cleared and the call returns
ThreadClearFlags(t) ==
    /\ At(t, "clear_flags")
    /\ _cache_valid' = Invalidate(_cache_valid)
    /\ last_call' = [method |-> thread[t].method, name |-> thread[t].name,
                     present |-> thread[t].method = "unregister",
                     raised |-> FALSE]
    /\ thread' = Pop(thread, t)
    /\ UNCHANGED <<ThreadFrame, _tools, _schema_cache, nops>>

\* the registry app code would share between threads holds 'today'
InitThreads ==
    /\ pc = "threads"
    /\ _tools \in {<<>>, <<Item("today", today)>>}
    /\ _internal_tool_types = INTERNAL_TOOL_TYPES
    /\ NewRegistry
    /\ NoTurn

NextThreads ==
    \E t \in Threads :
        \/ ThreadGetSchemas(t)
        \/ ThreadBuild(t)
        \/ ThreadStore(t)
        \/ ThreadSetValid(t)
        \/ ThreadReturn(t)
        \/ ThreadRegister(t)
        \/ ThreadUnregister(t)
        \/ ThreadClearFlags(t)

SpecThreads == InitThreads /\ [][NextThreads]_vars

\* ---------------------------------------------- AsyncLLMClient (llm.py)
\* the model identifiers a caller passes: both vendor prefixes, the five
\* OpenAI prefixes, and two identifiers with no known prefix
Models == {"claude-3-opus-20240229", "anthropic.claude-v2", "gpt-4o",
           "o1-mini", "o3-mini", "text-davinci-003", "dall-e-3", "llama3",
           "gemini-pro"}

ApiKeys == {"sk-test", "ollama"}

\* line 82
OrDefault(instructions_) ==
    IF Truthy(instructions_) THEN instructions_ ELSE "You are a helpful assistant."

\* line 89: the prefixes of the models served by OpenAI
OpenAIPrefixes == {"gpt", "o1", "o3", "text-", "dall-e"}

\* lines 89-92
IsOpenAIModel(model_, api_key_) ==
    (\E prefix \in OpenAIPrefixes : StartsWith(model_, prefix)) \/ api_key_ = "ollama"

\* lines 131-141
_prepare_messages(input_, instructions_) ==
    (IF Truthy(instructions_)
     THEN <<[role |-> "system", content |-> instructions_]>> ELSE <<>>)
    \o (IF input_.kind = "str"
        THEN <<[role |-> "user", content |-> input_.text]>>
        ELSE [i \in 1..Len(input_.msgs) |->
                 [role |-> input_.msgs[i].role, content |-> input_.msgs[i].content]])

\* lines 156-174: the message array of _get_anthropic_response
AnthropicMessages(input_, instructions_) ==
    LET mapped ==
            IF input_.kind = "str"
            THEN <<[role |-> "user", content |-> input_.text]>>
            ELSE [i \in 1..Len(input_.msgs) |->
                     LET role == IF input_.msgs[i].role = "developer"
                                 THEN "system" ELSE input_.msgs[i].role
                     IN  [role |-> IF role \in {"user", "assistant", "system"}
                                   THEN role ELSE "user",
                          content |-> input_.msgs[i].content]]
    IN  IF Truthy(instructions_) /\ ~HasSystemMessage(mapped)
        THEN <<[role |-> "system", content |-> instructions_]>> \o mapped
        ELSE mapped

\* lines 176-183: the arguments of anthropic_client.messages.create
_get_anthropic_response(input_, model_, instructions_, tools_) ==
    [endpoint |-> "anthropic.messages.create",
     params |-> [model |-> model_,
                 messages |-> AnthropicMessages(input_, instructions_),
                 tools |-> tools_]]

HasDeveloperMessage(msgs) ==
    \E i \in 1..Len(msgs) : msgs[i].role = "developer"

\* lines 205-239: the arguments of openai_client.responses.create
ResponsesCreateParams(input_, model_, instructions_, tools_, prev_id) ==
    LET base == [model |-> model_, input |-> input_, tools |-> tools_]
        withInstr ==
            IF input_.kind = "str"
               \/ (Truthy(instructions_) /\ ~HasDeveloperMessage(input_.msgs))
            THEN Put(base, "instructions", instructions_) ELSE base
    IN  IF Truthy(prev_id)
        THEN Put(withInstr, "previous_response_id", prev_id) ELSE withInstr

\* lines 249-258: the arguments of openai_client.chat.completions.create
ChatCompletionsParams(input_, model_, instructions_, tools_) ==
    [model |-> model_, messages |-> _prepare_messages(input_, instructions_),
     tools |-> tools_]

\* a client that hands the caller's previous_response_id to either API
_get_openai_response_forwarding(input_, model_, instructions_, tools_, responses_, prev_id) ==
    IF responses_
    THEN [endpoint |-> "openai.responses.create",
          params |-> ResponsesCreateParams(input_, model_, instructions_,
                                           tools_, prev_id)]
    ELSE [endpoint |-> "openai.chat.completions.create",
          params |-> IF Truthy(prev_id)
                     THEN Put(ChatCompletionsParams(input_, model_,
                                                    instructions_, tools_),
                              "previous_response_id", prev_id)
                     ELSE ChatCompletionsParams(input_, model_, instructions_,
                                                tools_)]

\* lines 192-258: the request of _get_openai_response
_get_openai_response(input_, model_, instructions_, tools_, responses_, prev_id) ==
    IF responses_
    THEN [endpoint |-> "openai.responses.create",
          params |-> ResponsesCreateParams(input_, model_, instructions_,
                                           tools_, prev_id)]
    ELSE [endpoint |-> "openai.chat.completions.create",
          params |-> ChatCompletionsParams(input_, model_, instructions_, tools_)]

\* what chat.completions.create returns
Completions ==
    {[id |-> "chatcmpl-1",
      choices |-> <<[message |-> [content |-> "hi"]]>>,
      usage |-> [prompt_tokens |-> 11, completion_tokens |-> 1]]}

\* a result that carries the identifier of the completion
ChatResultWithId(completion) ==
    [text |-> completion.choices[1].message.content,
     input_tokens |-> completion.usage.prompt_tokens,
     output_tokens |-> completion.usage.completion_tokens,
     response_id |-> completion.id]

\* lines 260-265
ChatResult(completion) ==
    [text |-> completion.choices[1].message.content,
     input_tokens |-> completion.usage.prompt_tokens,
     output_tokens |-> completion.usage.completion_tokens,
     response_id |-> None]

\* lines 110-112: every exception raised inside response() is replaced
Wrapped(model_, e) == "Error getting response from " \o model_ \o ": " \o e

FacadeFrame == <<_tools, _internal_tool_types, user_input, instructions, tools,
                 previous_response_id, current_tool_call_depth,
                 max_tool_call_depth, response, function_calls, idx, running,
                 invoked, tool_outputs, frames, message, final_text,
                 tool_calls, retrying, retries, retry_rejections,
                 provider_mode, rejections, model, RegistryVars, api_key,
                 use_responses_api, tool_func, internal_tool_types,
                 ChatToolsVars>>

\* response() up to the await of the provider (lines 82-108): the adapter is
\* chosen and its request is sent
FacadeResponse ==
    /\ pc = "facade"
    /\ IsAnthropicModel(model) \/ IsOpenAIModel(model, api_key)
    /\ LET call == IF IsAnthropicModel(model)
                   THEN _get_anthropic_response(user_input, model,
                                                OrDefault(instructions), tools)
                   ELSE _get_openai_response(user_input, model,
                                             OrDefault(instructions), tools,
                                             use_responses_api,
                                             previous_response_id)
       IN  /\ endpoint' = call.endpoint
           /\ in_flight' = call.params
    /\ nreq' = nreq + 1
    /\ pc' = "facade_awaiting"
    /\ UNCHANGED <<FacadeFrame, result, error, error_class, last_request>>

\* lines 108-112: no branch takes the model; the ValueError of line 109 is
\* raised inside the try and replaced by the except clause
FacadeUnsupported ==
    /\ pc = "facade"
    /\ ~IsAnthropicModel(model) /\ ~IsOpenAIModel(model, api_key)
    /\ error' = Wrapped(model, "Unsupported model: " \o model)
    /\ error_class' = "Exception"
    /\ pc' = "raised"
    /\ UNCHANGED <<FacadeFrame, result, endpoint, in_flight, nreq, last_request>>

FacadeAwaiting(endpoint_) == pc = "facade_awaiting" /\ endpoint = endpoint_

\* lines 176-190: messages.create returns; message.content[0].text raises
\* IndexError on an empty content, which the except clause replaces
FacadeAnthropicReturns ==
    /\ FacadeAwaiting("anthropic.messages.create")
    /\ \E m \in ProviderMessages(nreq, in_flight.tools # <<>>, "any") :
          IF m.content = <<>>
          THEN /\ error' = Wrapped(model, "list index out of range")
               /\ error_class' = "Exception"
               /\ pc' = "raised"
               /\ UNCHANGED result
          ELSE /\ result' = AnthropicResult(m.content[1].text, m)
               /\ pc' = "done"
               /\ UNCHANGED <<error, error_class>>
    /\ last_request' = in_flight
    /\ in_flight' = NoRequest
    /\ UNCHANGED <<FacadeFrame, endpoint, nreq>>

\* lines 239-246: responses.create returns
FacadeResponsesReturns ==
    /\ FacadeAwaiting("openai.responses.create")
    /\ \E r \in ProviderResponses(nreq, in_flight.tools) : result' = ResponseAsIs(r)
    /\ pc' = "done"
    /\ last_request' = in_flight
    /\ in_flight' = NoRequest
    /\ UNCHANGED <<FacadeFrame, endpoint, nreq, error, error_class>>

\* lines 251-265: chat.completions.create returns
FacadeChatReturns ==
    /\ FacadeAwaiting("openai.chat.completions.create")
    /\ \E completion \in Completions : result' = ChatResult(completion)
    /\ pc' = "done"
    /\ last_request' = in_flight
    /\ in_flight' = NoRequest
    /\ UNCHANGED <<FacadeFrame, endpoint, nreq, error, error_class>>

\* lines 110-112: the provider rejects the request
FacadeCreateRaises ==
    /\ pc = "facade_awaiting"
    /\ \E e \in ProviderRejections : error' = Wrapped(model, e)
    /\ error_class' = "Exception"
    /\ pc' = "raised"
    /\ last_request' = in_flight
    /\ in_flight' = NoRequest
    /\ UNCHANGED <<FacadeFrame, endpoint, nreq, result>>

\* a caller about to call response(); app.py lines 154-162 is the call with
\* use_responses_api = False
InitFacade ==
    /\ pc = "facade"
    /\ _tools = RegisteredTools
    /\ _internal_tool_types = INTERNAL_TOOL_TYPES
    /\ user_input \in AnthropicUserInputs
    /\ instructions \in {None, "Answer in French."}
    /\ tools \in {<<>>, <<TodaySchema>>}
    /\ previous_response_id \in {None, "resp_0"}
    /\ current_tool_call_depth = 0
    /\ max_tool_call_depth = DefaultMaxToolCallDepth
    /\ in_flight = NoRequest /\ nreq = 0 /\ response = NoResponse
    /\ function_calls = <<>> /\ idx = 1 /\ running = {} /\ invoked = <<>>
    /\ tool_outputs = <<>> /\ result = NoResult /\ error = None
    /\ frames = <<>> /\ message = NoMessage /\ final_text = ""
    /\ tool_calls = <<>> /\ retrying = FALSE /\ retries = 0
    /\ retry_rejections = 0 /\ last_request = NoRequest
    /\ provider_mode = "any" /\ rejections = <<>>
    /\ model \in Models
    /\ api_key \in ApiKeys
    /\ use_responses_api \in BOOLEAN
    /\ endpoint = None /\ error_class = None /\ tool_func = None
    /\ internal_tool_types = [given |-> FALSE]
    /\ id_mapping = EmptyDict /\ tool_responses = <<>>
    /\ assistant_message = [role |-> "assistant", content |-> "", tool_calls |-> <<>>]
    /\ NewRegistry

NextFacade ==
    \/ FacadeResponse
    \/ FacadeUnsupported
    \/ FacadeAnthropicReturns
    \/ FacadeResponsesReturns
    \/ FacadeChatReturns
    \/ FacadeCreateRaises

SpecFacade == InitFacade /\ [][NextFacade]_vars

\* a call served by either client: the facade of llm.py, or one of the
\* handlers of the core/llm package
InitAdapters == InitTurn \/ InitFacade

NextAdapters == NextTurn \/ NextFacade

SpecAdapters == InitAdapters /\ [][NextAdapters]_vars

\* --------------------------------- a tool module: decorate, register, list
\* the parameter lists of the functions decorated: up to MaxParams
\* parameters named by position; each with or without an annotated type,
\* with or without Annotated metadata, with or without a default
ParamName(i) == "arg" \o ToString(i)

ParameterKinds ==
    {[type |-> t, metadata |-> md, default |-> d] :
        t \in {"str", "int"}, md \in {<<>>, <<"What it is.">>}, d \in {"empty", "1"}}
    \cup {[type |-> "empty", metadata |-> <<>>, default |-> d] : d \in {"empty", "1"}}

Signatures ==
    UNION {{[i \in 1..k |-> Parameter(ParamName(i), kinds[i].type,
                                      kinds[i].metadata, kinds[i].default)] :
               kinds \in [1..k -> ParameterKinds]} : k \in 0..MaxParams}

\* date_and_time.py lines 8-10, before the decorator is applied
today_undecorated ==
    Function("today", "Return the current date and time in ISO format.", "today")

ModuleFunctions ==
    {today_undecorated}
        \cup {WithSignature(Function("convert", "Convert an amount.", "info"), sig) :
                 sig \in Signatures}

ModuleFrame == <<_internal_tool_types, user_input, instructions, tools,
                 previous_response_id, current_tool_call_depth,
                 max_tool_call_depth, in_flight, nreq, response,
                 function_calls, idx, running, invoked, tool_outputs, result,
                 error, AnthLocals, rejections, model, _tool_schemas, observed,
                 thread, api_key, use_responses_api, endpoint, error_class,
                 internal_tool_types, ChatToolsVars>>

\* date_and_time.py line 7: @llm_tool is applied when the module is imported
Decorate ==
    /\ pc = "module"
    /\ tool_func' = llm_tool(tool_func)
    /\ pc' = "decorated"
    /\ UNCHANGED <<ModuleFrame, _tools, _schema_cache, _cache_valid, last_call, nops>>

\* tooling.py lines 104-115, called as in app.py line 24: the function is
\* registered under its own name
RegisterDecorated ==
    /\ pc = "decorated"
    /\ MayRegister(tool_func)
    /\ _tools' = SetItem(_tools, tool_func.__name__, tool_func)
    /\ _cache_valid' = Invalidate(_cache_valid)
    /\ last_call' = [method |-> "register", name |-> tool_func.__name__,
                     func |-> tool_func.__name__, present |-> FALSE,
                     raised |-> FALSE]
    /\ nops' = nops + 1
    /\ pc' = "registered"
    /\ UNCHANGED <<ModuleFrame, _schema_cache, tool_func>>

\* tooling.py lines 164-179: get_schemas(provider) on the new registry
ListSchemas ==
    /\ pc = "registered"
    /\ \E provider \in {"openai", "anthropic"} :
         LET after == get_schemas(_tools, _schema_cache, _cache_valid,
                                  provider) IN
         /\ _schema_cache' = after.schema_cache
         /\ _cache_valid' = after.cache_valid
         /\ last_call' = [method |-> "get_schemas", provider |-> provider,
                          raised |-> FALSE, value |-> after.value,
                          before |-> NotObserved]
    /\ nops' = nops + 1
    /\ pc' = "listed"
    /\ UNCHANGED <<ModuleFrame, _tools, tool_func>>

InitModule ==
    /\ pc = "module"
    /\ tool_func \in ModuleFunctions
    /\ _tools = <<>>
    /\ _internal_tool_types = INTERNAL_TOOL_TYPES
    /\ user_input = StrInput /\ instructions = None /\ tools = <<>>
    /\ previous_response_id = None /\ current_tool_call_depth = 0
    /\ max_tool_call_depth = DefaultMaxToolCallDepth
    /\ in_flight = NoRequest /\ nreq = 0 /\ response = NoResponse
    /\ function_calls = <<>> /\ idx = 1 /\ running = {} /\ invoked = <<>>
    /\ tool_outputs = <<>> /\ result = NoResult /\ error = None
    /\ frames = <<>> /\ message = NoMessage /\ final_text = ""
    /\ tool_calls = <<>> /\ retrying = FALSE /\ retries = 0
    /\ retry_rejections = 0 /\ last_request = NoRequest
    /\ provider_mode = "any" /\ rejections = <<>> /\ model = "gpt-4o"
    /\ api_key = None /\ use_responses_api = TRUE /\ endpoint = None
    /\ error_class = None
    /\ internal_tool_types = [given |-> FALSE]
    /\ id_mapping = EmptyDict /\ tool_responses = <<>>
    /\ assistant_message = [role |-> "assistant", content |-> "", tool_calls |-> <<>>]
    /\ NewRegistry

NextModule ==
    \/ Decorate
    \/ RegisterDecorated
    \/ ListSchemas

SpecModule == InitModule /\ [][NextModule]_vars

\* ------------------------- prepare_tools_for_api on the registry's schemas
\* The list handed to prepare_tools_for_api holds the dicts get_schemas
\* returned, which are the openai_tool attributes of the registered functions
\* themselves, and dicts of the caller's own.  An item of the list is either
\* a reference to the openai_tool of the function registered under a name, or
\* a dict of the caller.
ToolRef(name) == [ref |-> name]
IsRef(x) == "ref" \in DOMAIN x

\* tools of the caller: a provider-internal tool, and a tool of a type that
\* is neither 'function' nor internal
FileSearchTool == [type |-> "file_search"]
CustomTool ==
    [type |-> "custom", name |-> "shell",
     function |-> [description |-> "Run a command.",
                   parameters |-> Parameters(<<>>)]]

Deref(tools_, x) ==
    IF IsRef(x) THEN GetItem(tools_, x.ref).openai_tool ELSE x

ToolArguments ==
    LET items == {ToolRef("today"), ToolRef("info"), FileSearchTool, CustomTool}
    IN  UNION {[1..k -> items] : k \in 0..MaxTools}

ApiTypes == {"responses", "completions", "anthropic", "generic"}

\* tool_handling.py line 37 assigns into the dict it was given: the names
\* whose openai_tool the call has written to
Written(tools_, list, api_type) ==
    IF api_type # "completions" THEN {}
    ELSE {list[i].ref : i \in {j \in 1..Len(list) :
                                  /\ IsRef(list[j])
                                  /\ IsFunctionTool(Deref(tools_, list[j]))}}

\* the functions of the registry after that assignment
AfterWrite(tools_, names) ==
    [i \in 1..Len(tools_) |->
        IF tools_[i].name \in names
        THEN Item(tools_[i].name,
                  Put(tools_[i].func, "openai_tool",
                      WithFunctionName(tools_[i].func.openai_tool)))
        ELSE tools_[i]]

\* the lists cached for 'openai' hold the same dicts (tooling.py line 187)
CacheAfterWrite(schema_cache, names) ==
    [p \in DOMAIN schema_cache |->
        IF p = "openai"
        THEN [i \in 1..Len(schema_cache[p]) |->
                 IF schema_cache[p][i].name \in names
                 THEN WithFunctionName(schema_cache[p][i])
                 ELSE schema_cache[p][i]]
        ELSE schema_cache[p]]

PrepareMayCall == pc = "prepare" /\ nops < MaxOps

PrepareFrame == <<TurnVars, _tool_schemas, thread, _internal_tool_types, observed>>

\* tool_handling.py lines 15-54
PrepareTools ==
    /\ PrepareMayCall
    /\ \E list \in ToolArguments, api_type \in ApiTypes :
         LET given == [i \in 1..Len(list) |-> Deref(_tools, list[i])]
             call == [method |-> "prepare_tools_for_api", api_type |-> api_type,
                      list |-> list, given |-> given]
         IN  IF /\ api_type = "anthropic"
                /\ \E i \in 1..Len(given) : ~({"name", "function"} \subseteq DOMAIN given[i])
             THEN /\ last_call' = [raised |-> TRUE, exc_type |-> "KeyError"] @@ call
                  /\ UNCHANGED <<_tools, _schema_cache>>
             ELSE /\ last_call' = [raised |-> FALSE,
                                   value |-> prepare_tools_for_api(given, api_type)]
                                      @@ call
                  /\ _tools' = AfterWrite(_tools, Written(_tools, list, api_type))
                  /\ _schema_cache' =
                        CacheAfterWrite(_schema_cache, Written(_tools, list, api_type))
    /\ nops' = nops + 1
    /\ UNCHANGED <<PrepareFrame, _cache_valid>>

\* tooling.py lines 164-179
PrepareGetSchemas ==
    /\ PrepareMayCall
    /\ \E provider \in {"openai", "anthropic"} :
         LET after == get_schemas(_tools, _schema_cache, _cache_valid,
                                  provider) IN
         /\ _schema_cache' = after.schema_cache
         /\ _cache_valid' = after.cache_valid
         /\ last_call' = [method |-> "get_schemas", provider |-> provider,
                          raised |-> FALSE, value |-> after.value,
                          before |-> NotObserved]
    /\ nops' = nops + 1
    /\ UNCHANGED <<PrepareFrame, _tools>>

\* app.py lines 23-24: a registry with the decorated functions registered
InitPrepare ==
    /\ pc = "prepare"
    /\ _tools = RegisteredTools
    /\ _internal_tool_types = INTERNAL_TOOL_TYPES
    /\ NewRegistry
    /\ NoTurn

NextPrepare ==
    \/ PrepareTools
    \/ PrepareGetSchemas

SpecPrepare == InitPrepare /\ [][NextPrepare]_vars

\* ------------------------------ ToolRegistry: the internal tool types
\* the argument of ToolRegistry(): not given, or a set of tool types
NoArgument == [given |-> FALSE]
Given(types) == [given |-> TRUE, types |-> types]

TypeSets == {{}, {"file_search"}, {"vector_search"}, {"file_search", "vector_search"}}

TypeNames == {"file_search", "vector_search", "today", "retrieval"}

\* tooling.py line 102: internal_tool_types or INTERNAL_TOOL_TYPES.copy()
InitInternalToolTypes(arg) ==
    IF arg.given /\ arg.types # {} THEN arg.types ELSE INTERNAL_TOOL_TYPES

TypesMayCall == pc = "internal_types" /\ nops < MaxOps

TypesFrame == <<TurnVars, _tool_schemas, thread, _tools, _schema_cache,
                _cache_valid, observed>>

\* lines 128-138
IsInternalTool ==
    /\ TypesMayCall
    /\ \E tool_type \in TypeNames :
         last_call' = [method |-> "is_internal_tool", tool_type |-> tool_type,
                       raised |-> FALSE,
                       value |-> is_internal_tool(_internal_tool_types, tool_type)]
    /\ nops' = nops + 1
    /\ UNCHANGED <<TypesFrame, _internal_tool_types>>

\* lines 140-147
AddType ==
    /\ TypesMayCall
    /\ \E tool_type \in TypeNames :
         /\ _internal_tool_types' = _internal_tool_types \cup {tool_type}
         /\ last_call' = [method |-> "add_internal_tool_type",
                          tool_type |-> tool_type, raised |-> FALSE]
    /\ nops' = nops + 1
    /\ UNCHANGED TypesFrame

\* lines 149-156: a copy of the set
GetInternalToolTypes ==
    /\ TypesMayCall
    /\ last_call' = [method |-> "get_internal_tool_types", raised |-> FALSE,
                     value |-> _internal_tool_types]
    /\ nops' = nops + 1
    /\ UNCHANGED <<TypesFrame, _internal_tool_types>>

\* ToolRegistry(internal_tool_types) or ToolRegistry(): lines 98-102
InitInternalTypes ==
    /\ pc = "internal_types"
    /\ internal_tool_types \in {NoArgument} \cup {Given(S) : S \in TypeSets}
    /\ _internal_tool_types = InitInternalToolTypes(internal_tool_types)
    /\ _tools = <<>>
    /\ NewRegistry
    /\ user_input = StrInput /\ instructions = None /\ tools = <<>>
    /\ previous_response_id = None /\ current_tool_call_depth = 0
    /\ max_tool_call_depth = DefaultMaxToolCallDepth
    /\ in_flight = NoRequest /\ nreq = 0 /\ response = NoResponse
    /\ function_calls = <<>> /\ idx = 1 /\ running = {} /\ invoked = <<>>
    /\ tool_outputs = <<>> /\ result = NoResult /\ error = None
    /\ frames = <<>> /\ message = NoMessage /\ final_text = ""
    /\ tool_calls = <<>> /\ retrying = FALSE /\ retries = 0
    /\ retry_rejections = 0 /\ last_request = NoRequest
    /\ provider_mode = "any" /\ rejections = <<>> /\ model = "gpt-4o"
    /\ api_key = None /\ use_responses_api = TRUE /\ endpoint = None
    /\ error_class = None /\ tool_func = None
    /\ id_mapping = EmptyDict /\ tool_responses = <<>>
    /\ assistant_message = [role |-> "assistant", content |-> "", tool_calls |-> <<>>]

NextInternalTypes ==
    \/ IsInternalTool
    \/ AddType
    \/ GetInternalToolTypes

SpecInternalTypes == InitInternalTypes /\ [][NextInternalTypes]_vars

\* ------------------------------ chat completions tool path (tool_handling.py)
\* getattr(obj, attr, default)
getattr(obj, attr, default) == IF attr \in DOMAIN obj THEN obj[attr] ELSE default

\* d.get(k, default)
dict_get(d, k, default) == IF k \in DOMAIN d THEN d[k] ELSE default

\* a tool call of a chat completion: id, type and a function object
ChatToolCall(id, name, arguments) ==
    [id |-> id, type |-> "function",
     function |-> [name |-> name, arguments |-> arguments]]

\* a function_call item of the responses API: call_id, and an item id
ResponsesToolCall(call_id, id, name, arguments) ==
    [type |-> "function_call", call_id |-> call_id, id |-> id, name |-> name,
     arguments |-> arguments]

\* what is asked for in a call: a tool that returns, ill-formed arguments,
\* a tool that raises, a tool that is not registered
ChatCallKinds ==
    {[name |-> "today", arguments |-> "{}"],
     [name |-> "today", arguments |-> "{bad"],
     [name |-> "boom", arguments |-> "{}"],
     [name |-> "ghost", arguments |-> "{}"]}

\* the i-th call of a list, in either shape; the provider's ids are distinct
CallsAt(i) ==
    {ChatToolCall("call_" \o ToString(i), kind.name, kind.arguments) :
        kind \in ChatCallKinds}
    \cup {ResponsesToolCall("call_" \o ToString(i), "fc_" \o ToString(i),
                            kind.name, kind.arguments) : kind \in ChatCallKinds}

ChatCallLists ==
    UNION {{calls \in [1..k -> UNION {CallsAt(i) : i \in 1..k}] :
               \A i \in 1..k : calls[i] \in CallsAt(i)} : k \in 0..MaxCalls}

\* line 63: a new uuid4 in every iteration, shortened
ShortId(i) == "call_uuid" \o ToString(i)

\* line 64: the key of the mapping
MappingKey(tool_call) ==
    getattr(tool_call, "call_id",
            IF hasattr(tool_call, "id") THEN tool_call.id ELSE "unknown")

\* lines 57-67: a later call with the same key replaces the entry
create_shortened_tool_ids(tool_calls_) ==
    [k \in {MappingKey(tool_calls_[i]) : i \in 1..Len(tool_calls_)} |->
        ShortId(CHOOSE i \in 1..Len(tool_calls_) :
                   /\ MappingKey(tool_calls_[i]) = k
                   /\ \A j \in 1..Len(tool_calls_) :
                         MappingKey(tool_calls_[j]) = k => j <= i)]

\* lines 90-92 and 190-192
FunctionName(tool_call) ==
    LET name == getattr(tool_call, "name", None)
    IN  IF ~Truthy(name) /\ hasattr(tool_call, "function")
        THEN tool_call.function.name ELSE name

\* lines 94-96 and 194-196
ArgumentsJson(tool_call) ==
    LET arguments == getattr(tool_call, "arguments", None)
    IN  IF ~Truthy(arguments) /\ hasattr(tool_call, "function")
        THEN tool_call.function.arguments ELSE arguments

\* an id taken from the id attribute whenever the call has one
ItemId(tool_call) == getattr(tool_call, "id", getattr(tool_call, "call_id", None))

\* lines 99-101: the original id in process_function_calls
OriginalId(tool_call) ==
    LET call_id == getattr(tool_call, "call_id", None)
    IN  IF ~Truthy(call_id) /\ hasattr(tool_call, "id") THEN tool_call.id
        ELSE call_id

\* lines 184-185: the original id in prepare_assistant_message_with_tool_calls
MessageOriginalId(tool_call) ==
    getattr(tool_call, "call_id", getattr(tool_call, "id", None))

\* lines 87-146: the response appended for one call.  With calls of the two
\* shapes nothing raises outside the inner try, so the clause of lines
\* 147-157 is not entered.
ToolResponse(tools_, tool_call, id_mapping_) ==
    LET function_name == FunctionName(tool_call)
        tool_call_id == dict_get(id_mapping_, OriginalId(tool_call),
                                 OriginalId(tool_call))
        args == json_loads(ArgumentsJson(tool_call))
        outcome == execute_tool(tools_, function_name, args.value)
    IN  [tool_call_id |-> tool_call_id,
         output |->
            IF ~has_tool(tools_, function_name)
            THEN "Error: Tool '" \o function_name \o "' not found in registry"
            ELSE IF args.raised
            THEN "Invalid JSON arguments for tool " \o function_name \o ": "
                    \o args.exc
            ELSE IF outcome.raised
            THEN "Error executing tool " \o function_name \o ": " \o outcome.exc
            ELSE FormatResult(outcome.value)]

\* lines 70-161
process_function_calls(tools_, function_calls_, id_mapping_) ==
    [i \in 1..Len(function_calls_) |->
        ToolResponse(tools_, function_calls_[i], id_mapping_)]

\* lines 164-208
prepare_assistant_message_with_tool_calls(content, function_calls_, id_mapping_) ==
    [role |-> "assistant", content |-> content,
     tool_calls |->
        [i \in 1..Len(function_calls_) |->
            [id |-> dict_get(id_mapping_, MessageOriginalId(function_calls_[i]),
                             MessageOriginalId(function_calls_[i])),
             type |-> "function",
             function |-> [name |-> FunctionName(function_calls_[i]),
                           arguments |-> ArgumentsJson(function_calls_[i])]]]]

NoAssistantMessage == [role |-> "assistant", content |-> "", tool_calls |-> <<>>]

ChatToolsFrame == <<_tools, _internal_tool_types, user_input, instructions,
                    tools, previous_response_id, current_tool_call_depth,
                    max_tool_call_depth, in_flight, nreq, response,
                    function_calls, idx, running, invoked, tool_outputs,
                    result, error, AnthLocals, rejections, model,
                    RegistryVars, api_key, use_responses_api, endpoint,
                    error_class, tool_func, internal_tool_types>>

\* the caller creates the mapping for the calls of the completion
CreateShortenedToolIds ==
    /\ pc = "chat_tools"
    /\ id_mapping' = create_shortened_tool_ids(function_calls)
    /\ pc' = "mapped"
    /\ UNCHANGED <<ChatToolsFrame, tool_responses, assistant_message>>

\* the caller runs the calls with that mapping, or with an empty mapping
\* of its own
ProcessFunctionCalls ==
    /\ pc \in {"chat_tools", "mapped"}
    /\ tool_responses' = process_function_calls(_tools, function_calls, id_mapping)
    /\ pc' = "processed"
    /\ UNCHANGED <<ChatToolsFrame, id_mapping, assistant_message>>

\* the caller builds the assistant message with the same mapping
PrepareAssistantMessage ==
    /\ pc = "processed"
    /\ assistant_message' =
          prepare_assistant_message_with_tool_calls("Let me check.",
                                                    function_calls, id_mapping)
    /\ pc' = "prepared"
    /\ UNCHANGED <<ChatToolsFrame, id_mapping, tool_responses>>

InitChatTools ==
    /\ pc = "chat_tools"
    /\ function_calls \in ChatCallLists
    /\ id_mapping = EmptyDict
    /\ tool_responses = <<>>
    /\ assistant_message = NoAssistantMessage
    /\ _tools = RegisteredTools
    /\ _internal_tool_types = INTERNAL_TOOL_TYPES
    /\ NewRegistry
    /\ user_input = StrInput /\ instructions = None /\ tools = <<TodaySchema>>
    /\ previous_response_id = None /\ current_tool_call_depth = 0
    /\ max_tool_call_depth = DefaultMaxToolCallDepth
    /\ in_flight = NoRequest /\ nreq = 0 /\ response = NoResponse
    /\ idx = 1 /\ running = {} /\ invoked = <<>>
    /\ tool_outputs = <<>> /\ result = NoResult /\ error = None
    /\ frames = <<>> /\ message = NoMessage /\ final_text = ""
    /\ tool_calls = <<>> /\ retrying = FALSE /\ retries = 0
    /\ retry_rejections = 0 /\ last_request = NoRequest
    /\ provider_mode = "any" /\ rejections = <<>> /\ model = "gpt-4o"
    /\ api_key = None /\ use_responses_api = FALSE /\ endpoint = None
    /\ error_class = None /\ tool_func = None
    /\ internal_tool_types = [given |-> FALSE]

NextChatTools ==
    \/ CreateShortenedToolIds
    \/ ProcessFunctionCalls
    \/ PrepareAssistantMessage

SpecChatTools == InitChatTools /\ [][NextChatTools]_vars

\* ----------------------------------------------------------- properties
\* the local function calls of a provider response, as the provider listed them
LocalCalls(response_) ==
    SelectSeq2(response_.output,
               [i \in 1..Len(response_.output) |->
                   /\ response_.output[i].type = "function_call"
                   /\ response_.output[i].name # ""])

\* the function_call_output items of a request
OutputItemsOf(request) ==
    IF "input" \in DOMAIN request /\ request.input.kind = "list"
    THEN SelectSeq2(request.input.msgs,
                    [i \in 1..Len(request.input.msgs) |->
                        /\ "type" \in DOMAIN request.input.msgs[i]
                        /\ request.input.msgs[i].type = "function_call_output"])
    ELSE <<>>

\* a follow-up request of the stateful-responses loop is with the provider
FollowUpSent == pc = "awaiting" /\ nreq > 1

\* C1: started at depth 0 with maximum depth d, a stateful-responses turn
\* issues at most d + 1 provider requests, whatever the provider answers, and
\* once the answer to request d + 1 has arrived the turn has returned a
\* response to the caller.
C1_DepthBound ==
    /\ nreq <= max_tool_call_depth + 1
    /\ (nreq = max_tool_call_depth + 1 /\ pc \notin {"awaiting", "provider", "raised"})
          => (pc = "done" /\ result # NoResult)

\* C1 witness: maximum depth 2, every response asked for a tool, the turn
\* returned after 3 requests
C1_Witness ==
    /\ max_tool_call_depth = 2 /\ nreq = 3 /\ pc = "done"
    /\ function_calls # <<>> /\ result # NoResult

\* C2: with maximum depth 3 and a provider whose every response contains a
\* new local function call, the turn issues exactly 4 requests and returns the
\* canned "maximum tool calls reached" response with zero token counts.
C2_CannedResponseAtDepthLimit ==
    (max_tool_call_depth = 3 /\ pc = "done" /\ LocalCalls(response) # <<>>)
        => (nreq = 4 /\ result = DepthExceededResponse)

\* C4: the local tool calls of one response are executed one at a time in the
\* order the provider listed them, a call starting only after the result of
\* the previous one is collected, and the next request carries the results in
\* that order.
C4_SequentialInOrder ==
    LET ids == [i \in 1..Len(LocalCalls(response)) |-> LocalCalls(response)[i].call_id]
        got == [i \in 1..Len(tool_outputs) |-> tool_outputs[i].id]
        sent == [i \in 1..Len(OutputItemsOf(in_flight)) |->
                    OutputItemsOf(in_flight)[i].call_id]
    IN  /\ Cardinality(running) <= 1
        /\ pc = "tools" =>
              /\ Len(got) <= Len(ids) /\ got = SubSeq(ids, 1, Len(got))
              /\ \A i \in running : i = Len(got) + 1
              /\ \A i \in 1..Len(invoked) : \E j \in i..Len(ids) : invoked[i] = ids[j]
              /\ \A i, j \in 1..Len(invoked) :
                    i < j => \E k, l \in 1..Len(ids) :
                                k < l /\ ids[k] = invoked[i] /\ ids[l] = invoked[j]
        /\ FollowUpSent => sent = ids

\* C4 witness: a response listed two calls of registered tools, both callables
\* ran and the request with their two results is sent
C4_Witness ==
    /\ FollowUpSent /\ Len(invoked) = 2
    /\ Len(OutputItemsOf(in_flight)) = 2

\* the textual result of one function call, from what the registry holds
TextualResult(call) ==
    IF call.name \notin Names(_tools)
    THEN "Error: Tool '" \o call.name \o "' not found in registry"
    ELSE IF call.arguments # "{}"
    THEN "Invalid JSON arguments for tool " \o call.name \o ": "
            \o "Expecting property name: line 1 column 2 (char 1)"
    ELSE IF call.name = "today" THEN "2026-11-01T00:00:00Z"
    ELSE IF call.name = "info" THEN "{\"day\": 1}"
    ELSE "Error executing tool " \o call.name \o ": boom failed"

\* C5: for every response with local function calls below the depth limit,
\* the next request contains exactly one function_call_output item per
\* function call of that response, with that call's call_id verbatim and its
\* textual result, and none for any other call.
C5_OneOutputPerCall ==
    /\ FollowUpSent =>
          OutputItemsOf(in_flight) =
              [i \in 1..Len(LocalCalls(response)) |->
                  [type |-> "function_call_output",
                   call_id |-> LocalCalls(response)[i].call_id,
                   output |-> TextualResult(LocalCalls(response)[i])]]
    /\ (pc = "awaiting" /\ nreq = 1) => OutputItemsOf(in_flight) = <<>>
    /\ (pc = "done" /\ LocalCalls(response) # <<>>)
          => current_tool_call_depth >= max_tool_call_depth

\* C5 witness: the response asked for 'today' and for 'info', and the request
\* answering both is sent
C5_Witness ==
    /\ FollowUpSent
    /\ \E i, j \in 1..Len(LocalCalls(response)) :
          /\ LocalCalls(response)[i].name = "today"
          /\ LocalCalls(response)[i].arguments = "{}"
          /\ LocalCalls(response)[j].name = "info"
    /\ Len(OutputItemsOf(in_flight)) = 2

\* a function call that fails at tool level
ToolLevelFailure(call) ==
    \/ call.name \notin Names(_tools)
    \/ call.arguments # "{}"
    \/ call.name = "boom"

IsErrorText(text) ==
    \/ Len(text) >= 12 /\ SubSeq(text, 1, 12) = "Error: Tool "
    \/ Len(text) >= 22 /\ SubSeq(text, 1, 22) = "Invalid JSON arguments"
    \/ Len(text) >= 20 /\ SubSeq(text, 1, 20) = "Error executing tool"

\* C7: every tool-level failure of a function call (unknown tool, arguments
\* that are not JSON, callable raising) yields an error-text result for that
\* call id, the other calls of the response still get their result, and the
\* turn goes on with a follow-up request: nothing but a provider rejection is
\* raised to the caller.
C7_ToolFailuresAbsorbed ==
    /\ pc = "raised" => error \in ProviderRejections
    /\ FollowUpSent =>
          /\ Len(OutputItemsOf(in_flight)) = Len(LocalCalls(response))
          /\ \A i \in 1..Len(LocalCalls(response)) :
                /\ OutputItemsOf(in_flight)[i].call_id = LocalCalls(response)[i].call_id
                /\ ToolLevelFailure(LocalCalls(response)[i])
                      <=> IsErrorText(OutputItemsOf(in_flight)[i].output)
    /\ (pc = "done" /\ \E i \in 1..Len(LocalCalls(response)) :
                           ToolLevelFailure(LocalCalls(response)[i]))
          => current_tool_call_depth >= max_tool_call_depth

\* C7 witness: the first call of a response raised in its callable, the second
\* call succeeded afterwards, and the follow-up request is sent
C7_Witness ==
    /\ FollowUpSent
    /\ Len(LocalCalls(response)) = 2
    /\ LocalCalls(response)[1].name = "boom"
    /\ LocalCalls(response)[2].name = "today"
    /\ ~IsErrorText(OutputItemsOf(in_flight)[2].output)

\* a follow-up request of the alternate-vendor adapter, made after tool_use
\* blocks were executed, is with the provider
AnthFollowUpSent == pc = "awaiting" /\ ~retrying /\ nreq > 1

ToolUseBlocks(message_) ==
    SelectSeq2(message_.content,
               [i \in 1..Len(message_.content) |->
                   message_.content[i].type = "tool_use"])

\* C3: in the alternate-vendor adapter a turn whose provider keeps returning
\* tool_use blocks for registered tools issues at most maxToolDepth + 1
\* provider requests, with the default maximum of 3.
C3_AnthropicDepthBound ==
    provider_mode = "keeps_calling" => nreq <= max_tool_call_depth + 1

\* C6: the follow-up request sent after executing tool_use blocks carries each
\* tool result together with the id of the tool_use block it answers, the id
\* still attached to the result in the message array that is sent.
C6_ToolUseIdEchoed ==
    AnthFollowUpSent =>
        \A i \in 1..Len(tool_calls) :
            \E j \in 1..Len(in_flight.messages) :
                /\ in_flight.messages[j].content = tool_calls[i].output
                /\ "tool_call_id" \in DOMAIN in_flight.messages[j]
                /\ in_flight.messages[j].tool_call_id = tool_calls[i].tool_call_id

\* a tool_use block that fails at tool level
ToolUseFails(block) == block.name \notin Names(_tools) \/ block.name = "boom"

\* C8: when a tool_use block names a tool absent from the registry or its
\* callable raises, the failure becomes a tool result of that call which is
\* folded into a follow-up request, and the turn continues: the follow-up
\* request adds the assistant message and one result per tool_use block, and
\* no message with a failed tool_use block ends the turn.
C8_ToolUseFailuresRecovered ==
    /\ AnthFollowUpSent =>
          Len(in_flight.messages) =
              Len(last_request.messages) + 1 + Len(ToolUseBlocks(message))
    /\ (pc = "done" /\ ~retrying) =>
          \A i \in 1..Len(ToolUseBlocks(message)) :
              ~ToolUseFails(ToolUseBlocks(message)[i])

\* C9: when the provider rejects a request with an error whose text contains
\* 'tool_choice' or 'Extra inputs are not permitted', the adapter does not
\* surface that error but issues one retry, which is the rejected request
\* without its tools and tool_choice fields, and when the retry is answered
\* the turn returns the text and usage of that answer with no further request.
C9_RetryWithoutTools ==
    /\ (pc = "awaiting" /\ retrying) =>
          /\ "tools" \notin DOMAIN in_flight
          /\ "tool_choice" \notin DOMAIN in_flight
          /\ retry_rejections = 0 =>
                /\ retries = 1
                /\ in_flight = [k \in DOMAIN last_request \ {"tools", "tool_choice"}
                                   |-> last_request[k]]
    /\ (pc = "raised" /\ IsToolRelated(error)) => retry_rejections >= 1
    /\ (pc = "done" /\ retrying) =>
          /\ result = [text |-> TextOf(message.content),
                        input_tokens |-> message.usage.input_tokens,
                        output_tokens |-> message.usage.output_tokens,
                        response_id |-> None]
          /\ message.usage.input_tokens = 10 + nreq
          /\ retry_rejections = 0 => retries = 1

\* C9 witness: the first request offered tools and was rejected, its retry
\* was answered with text and the turn returned after these two requests
C9_Witness ==
    /\ pc = "done" /\ retrying /\ retries = 1 /\ nreq = 2
    /\ tools # <<>> /\ "tools" \notin DOMAIN last_request
    /\ result.text = "Let me check."

\* C10: in one alternate-vendor turn, also after tool-calling follow-up
\* rounds, at most one tool-stripped retry is ever issued, and when that retry
\* is rejected the error is surfaced with no further provider request.
C10_AtMostOneRetry ==
    /\ retries <= 1
    /\ retry_rejections > 0 => pc = "raised"

\* a provider rejection that is not about the tools of the request
NonToolRejections ==
    {e \in ProviderRejections :
        ~Contains(e, "tool_choice") /\ ~Contains(e, "Extra inputs")}

\* the provider rejects the request in this step
Rejected == Len(rejections') > Len(rejections)

\* C11: a provider rejection that is not tool-related reaches the caller as
\* the error of the turn with no retry, and after it neither handler issues
\* a provider request or starts a tool in that turn.
C11_FatalRejection ==
    [][/\ (Rejected /\ rejections'[Len(rejections')] \in NonToolRejections)
            => /\ pc' = "raised"
               /\ error' = rejections'[Len(rejections')]
               /\ nreq' = nreq /\ in_flight' = NoRequest
               /\ running' = {} /\ invoked' = invoked
       /\ (pc = "raised" /\ error \in NonToolRejections)
            => /\ pc' = "raised" /\ error' = error
               /\ nreq' = nreq /\ in_flight' = in_flight
               /\ running' = running /\ invoked' = invoked]_vars

\* C11 witness: after a tool was executed, the alternate vendor rejects the
\* follow-up request with a rejection that is not tool-related, and the
\* turn has ended with that error
C11_Witness ==
    /\ pc = "raised" /\ error \in NonToolRejections
    /\ nreq = 2 /\ invoked # <<>>
    /\ IsAnthropicModel(model)

\* ------------------------------------------------ properties: registry
\* a method of the registry is called in this step
Calls(method) == nops' = nops + 1 /\ last_call'.method = method

\* C12: whatever was done to the registry before, has_tool(n) is true right
\* after a register(n, tool) that succeeded and false right after
\* unregister(n).
C12_HasToolFollowsRegistration ==
    /\ (last_call.method = "register" /\ ~last_call.raised)
          => has_tool(_tools, last_call.name)
    /\ last_call.method = "unregister" => ~has_tool(_tools, last_call.name)

\* C12 witness: a name the registry held was unregistered while another
\* tool stays registered
C12_Witness ==
    /\ last_call.method = "unregister" /\ last_call.present
    /\ _tools # <<>>

\* the schema of one callable for a provider: the provider's own schema when
\* the callable has one, the generic schema otherwise
Projection(func, provider) ==
    CASE provider = "openai" /\ "openai_tool" \in DOMAIN func -> func.openai_tool
      [] provider = "anthropic" /\ "anthropic_tool" \in DOMAIN func
            -> func.anthropic_tool
      [] OTHER -> func.tool

\* the projection of the registered tools, in the order of registration
Projected(provider) ==
    [i \in 1..Len(_tools) |-> Projection(_tools[i].func, provider)]

\* C14: after any sequence of register, unregister, get_schemas and
\* clear_cache calls, get_schemas(provider) returns exactly the provider
\* projection of the tools registered now, in registration order, and a
\* cache marked valid holds that projection: no schema of a removed or
\* overwritten tool comes from a stale cache and no new tool is missing.
C14_SchemasAreCurrent ==
    /\ last_call.method = "get_schemas"
          => last_call.value = Projected(last_call.provider)
    /\ \A p \in DOMAIN _cache_valid :
          _cache_valid[p] => _schema_cache[p] = Projected(p)
    /\ \A p \in Providers :
          get_schemas(_tools, _schema_cache, _cache_valid, p).value
              = Projected(p)

\* C14 witness: get_schemas returned schemas for a provider, a register or
\* unregister then changed what is registered, and get_schemas was called
\* for that provider again and returned something else
C14_Witness ==
    /\ last_call.method = "get_schemas"
    /\ last_call.before.seen /\ ~last_call.before.current
    /\ last_call.before.value # <<>>
    /\ last_call.value # last_call.before.value
    /\ last_call.value # <<>>

\* C15: two get_schemas(provider) calls with no register or unregister
\* between them return structurally identical results.
C15_GetSchemasIdempotent ==
    (last_call.method = "get_schemas" /\ last_call.before.current)
        => last_call.value = last_call.before.value

\* C15 witness: the second call follows a clear_cache, so it rebuilt the
\* schemas of two registered tools
C15_Witness ==
    /\ last_call.method = "get_schemas" /\ last_call.before.current
    /\ Len(last_call.value) = 2
    /\ nops = MaxOps

\* what get_schemas would return for each provider
SchemasByProvider(tools_, schema_cache, cache_valid) ==
    [p \in Providers |-> get_schemas(tools_, schema_cache, cache_valid, p).value]

\* C16: register(name, tool) with a tool that has no 'tool' attribute fails
\* with ValueError and leaves the registry as it was: the registered names,
\* the callable bound to each name and every get_schemas result.
C16_InvalidToolRejected ==
    [][(Calls("register") /\ last_call'.func = "plain")
          => /\ last_call'.raised /\ last_call'.exc_type = "ValueError"
             /\ _tools' = _tools
             /\ SchemasByProvider(_tools', _schema_cache', _cache_valid')
                  = SchemasByProvider(_tools, _schema_cache, _cache_valid)]_vars

\* C16 witness: the undecorated function was offered under a name that is
\* bound to a tool, with schemas cached
C16_Witness ==
    /\ last_call.method = "register" /\ last_call.raised
    /\ last_call.present
    /\ \E p \in DOMAIN _cache_valid : _cache_valid[p]

\* C17 (as stated): unregister(name) for a name that is not registered
\* leaves the registered names and every get_schemas result as they were and
\* raises nothing, and unregister invalidates the cached schemas of every
\* provider.
C17_UnregisterInvalidatesAll ==
    [][Calls("unregister")
          => /\ ~last_call'.raised
             /\ ~last_call'.present
                   => /\ _tools' = _tools
                      /\ SchemasByProvider(_tools', _schema_cache', _cache_valid')
                           = SchemasByProvider(_tools, _schema_cache,
                                               _cache_valid)
             /\ \A p \in DOMAIN _cache_valid' : ~_cache_valid'[p]]_vars

\* C17 (amended): unregister(name) for a name that is not registered leaves
\* the registered names, every get_schemas result and the caches as they
\* were and raises nothing; unregister of a registered name invalidates the
\* cached schemas of every provider.
C17_UnregisterInvalidatesOnRemoval ==
    [][Calls("unregister")
          => /\ ~last_call'.raised
             /\ ~last_call'.present
                   => /\ _tools' = _tools
                      /\ SchemasByProvider(_tools', _schema_cache', _cache_valid')
                           = SchemasByProvider(_tools, _schema_cache,
                                               _cache_valid)
                      /\ _cache_valid' = _cache_valid
                      /\ _schema_cache' = _schema_cache
             /\ last_call'.present
                   => \A p \in DOMAIN _cache_valid' : ~_cache_valid'[p]]_vars

\* C17 witness: a registered name was unregistered while the schemas of two
\* providers were cached, and both are invalid now
C17_Witness ==
    /\ last_call.method = "unregister" /\ last_call.present
    /\ Cardinality(DOMAIN _cache_valid) = 2
    /\ \A p \in DOMAIN _cache_valid : ~_cache_valid[p] /\ _schema_cache[p] # <<>>

\* C19: execute_tool(name, args) for a name that is not registered fails with
\* KeyError, invokes no callable and leaves the tools and the schema caches
\* of the registry as they were.
C19_ExecuteUnregisteredFails ==
    [][(Calls("execute_tool") /\ ~last_call'.present)
          => /\ last_call'.raised /\ last_call'.exc_type = "KeyError"
             /\ ~last_call'.called
             /\ _tools' = _tools
             /\ _schema_cache' = _schema_cache
             /\ _cache_valid' = _cache_valid]_vars

\* C19 witness: the name is not registered, but a registered callable has
\* the name as its function name, and a cache is valid
C19_Witness ==
    /\ last_call.method = "execute_tool" /\ ~last_call.present
    /\ \E i \in 1..Len(_tools) : _tools[i].func.__name__ = last_call.name
    /\ \E p \in DOMAIN _cache_valid : _cache_valid[p]

\* C20: execute_tool called with a name that is in the internal tool types of
\* the registry invokes no callable and fails with ValueError, whatever was
\* registered and whichever types were added.
C20_InternalToolNeverExecuted ==
    (/\ last_call.method = "execute_tool"
     /\ is_internal_tool(_internal_tool_types, last_call.name))
        => /\ ~last_call.called
           /\ last_call.raised /\ last_call.exc_type = "ValueError"

\* C13: for every provider and every sequence of register calls, get_schemas
\* returns as many schemas as there are distinct registered names, so that
\* registering a registered name again does not change the length; in the
\* registry of core/llm/tooling.py and in the registry of core/tooling.py.
C13_SchemaCountMatchesTools ==
    /\ pc = "registry"
          => \A p \in Providers :
                Len(get_schemas(_tools, _schema_cache, _cache_valid, p).value)
                    = Cardinality(Names(_tools))
    /\ pc = "core_registry"
          => \A p \in CoreProviders :
                Len(core_get_schemas(_tool_schemas, p))
                    = Cardinality(Names(_tools))

\* C18: whichever way the steps of concurrent get_schemas, register and
\* unregister calls interleave, once every call has returned a cache marked
\* valid holds the projection of the tools registered now, so get_schemas
\* returns nothing else.
C18_ValidCacheNeverStale ==
    (pc = "threads" /\ thread = EmptyDict)
        => \A p \in Providers :
              get_schemas(_tools, _schema_cache, _cache_valid, p).value
                  = Projected(p)

\* the call ids of the named function_call items of a response
LocalCallIds(response_) ==
    {LocalCalls(response_)[i].call_id : i \in 1..Len(LocalCalls(response_))}

\* C21: in the stateful-responses loop an output item of a provider-internal
\* tool type is never handed to the registry and never gets a
\* function_call_output item; only function_call items that carry a name are
\* executed locally.
C21_InternalItemsNotExecuted ==
    /\ \A i \in 1..Len(function_calls) :
          /\ function_calls[i].type = "function_call"
          /\ function_calls[i].name # ""
    /\ \A i \in 1..Len(invoked) : invoked[i] \in LocalCallIds(response)
    /\ \A i \in 1..Len(tool_outputs) :
          tool_outputs[i].id \in LocalCallIds(response)
    /\ FollowUpSent =>
          \A i \in 1..Len(OutputItemsOf(in_flight)) :
              OutputItemsOf(in_flight)[i].call_id \in LocalCallIds(response)

\* C21 witness: the response listed a file_search item before a function
\* call, and the follow-up request answers the function call only
C21_Witness ==
    /\ FollowUpSent
    /\ \E i \in 1..Len(response.output) :
          response.output[i].type \in INTERNAL_TOOL_TYPES
    /\ Len(invoked) = 1
    /\ Len(OutputItemsOf(in_flight)) = 1

\* ------------------------------------------------- properties: the client
Unroutable(model_, api_key_) ==
    /\ ~StartsWith(model_, "claude") /\ ~StartsWith(model_, "anthropic")
    /\ \A prefix \in {"gpt", "o1", "o3", "text-", "dall-e"} : ~StartsWith(model_, prefix)
    /\ api_key_ # "ollama"

\* C22: a call of response() goes to one adapter, chosen by the model
\* identifier and the API key alone: 'claude' and 'anthropic' identifiers to
\* the alternate vendor; otherwise the identifiers with an OpenAI prefix, and
\* any identifier under the key 'ollama', to OpenAI, through responses.create
\* unless use_responses_api is false, then through chat.completions.create.
C22_RoutedByModelAndKey ==
    endpoint # None =>
        /\ nreq = 1
        /\ endpoint =
              IF StartsWith(model, "claude") \/ StartsWith(model, "anthropic")
              THEN "anthropic.messages.create"
              ELSE IF use_responses_api THEN "openai.responses.create"
              ELSE "openai.chat.completions.create"
        /\ ~Unroutable(model, api_key)
        /\ pc = "facade_awaiting" => in_flight.model = model

\* C22 witness: under the key 'ollama' an identifier with no known prefix
\* has been sent to the chat completions API
C22_Witness ==
    /\ pc = "facade_awaiting" /\ model = "llama3" /\ api_key = "ollama"
    /\ endpoint = "openai.chat.completions.create"

\* C23: for an identifier no branch takes, response() sends no request and
\* raises ValueError
C23_UnsupportedModelIsValueError ==
    (pc \in {"raised", "done", "facade_awaiting"} /\ Unroutable(model, api_key)) =>
        /\ pc = "raised"
        /\ nreq = 0
        /\ error_class = "ValueError"

\* ------------------------------------------- properties: token accounting
\* the usage the provider reports in its n-th response of a turn
UsageOf(n) == (CHOOSE r \in ProviderResponses(n, <<>>) : TRUE).usage

RECURSIVE TotalUsage(_)
\* the usage of the first n responses of a turn, summed
TotalUsage(n) ==
    IF n = 0 THEN [input_tokens |-> 0, output_tokens |-> 0]
    ELSE [input_tokens |-> TotalUsage(n - 1).input_tokens + UsageOf(n).input_tokens,
          output_tokens |-> TotalUsage(n - 1).output_tokens + UsageOf(n).output_tokens]

\* C24: the token counts of the response a turn of handle_responses_api
\* returns are the sums of the usage of every provider response of the turn
C24_UsageSummedOverRounds ==
    (pc = "done" /\ response.id = ResponseId(nreq)) =>
        /\ result.input_tokens = TotalUsage(nreq).input_tokens
        /\ result.output_tokens = TotalUsage(nreq).output_tokens

\* ------------------------------------------ properties: requests, results
\* the call is served by the stateful responses API
ServedByResponsesAPI ==
    \/ endpoint = "openai.responses.create"
    \/ endpoint = None /\ ~StartsWith(model, "claude") /\ ~StartsWith(model, "anthropic")

\* C25: the result of a call served by the alternate vendor (directly, after
\* tool rounds or after a retry without tools) or by the chat completions API
\* has response_id None; a response_id is returned by the stateful responses
\* API only.
C25_ResponseIdOnlyFromResponsesAPI ==
    (pc = "done" /\ ~ServedByResponsesAPI) => result.response_id = None

\* C25 witness: a chat completion that has an id of its own was returned to
\* a caller who passed a previous_response_id
C25_Witness ==
    /\ pc = "done" /\ endpoint = "openai.chat.completions.create"
    /\ previous_response_id = "resp_0"
    /\ result.response_id = None /\ result.text = "hi"

\* C26: a request sent to the alternate vendor or to the chat completions API
\* has no previous_response_id, whatever the caller passed
C26_NoContinuationOutsideResponsesAPI ==
    /\ (pc = "facade_awaiting" /\ endpoint # "openai.responses.create") =>
           "previous_response_id" \notin DOMAIN in_flight
    /\ (pc \in {"done", "raised"} /\ endpoint \notin {None, "openai.responses.create"}) =>
           "previous_response_id" \notin DOMAIN last_request

\* C26 witness: the call of app.py, use_responses_api false with the
\* response_id of the previous turn, has its request in flight
C26_Witness ==
    /\ pc = "facade_awaiting" /\ endpoint = "openai.chat.completions.create"
    /\ previous_response_id = "resp_0" /\ model = "gpt-4o"

\* C27: a chat completions request made with tools = [] has no tools field
C27_NoToolsFieldForEmptyList ==
    (pc = "facade_awaiting" /\ endpoint = "openai.chat.completions.create"
        /\ tools = <<>>) => "tools" \notin DOMAIN in_flight

\* the first request of a call to the stateful responses API is in flight
FirstResponsesRequest ==
    /\ nreq = 1
    /\ \/ pc = "facade_awaiting" /\ endpoint = "openai.responses.create"
       \/ pc = "awaiting" /\ endpoint = None
             /\ ~StartsWith(model, "claude") /\ ~StartsWith(model, "anthropic")

\* C28: for a list of messages, the request to the stateful responses API
\* has the instructions field exactly when the caller gave instructions and
\* no message of the list has the system role, in handle_responses_api and
\* in AsyncLLMClient._get_openai_response alike
C28_InstructionsUnlessSystemMessage ==
    (FirstResponsesRequest /\ user_input.kind = "list") =>
        ("instructions" \in DOMAIN in_flight
            <=> (instructions \notin {None, ""}
                   /\ \A i \in 1..Len(user_input.msgs) :
                         user_input.msgs[i].role # "system"))

\* the contents of the system and developer messages the caller passed
CallerSystemTexts ==
    IF user_input.kind = "str" THEN {}
    ELSE {user_input.msgs[i].content :
             i \in {j \in 1..Len(user_input.msgs) :
                       user_input.msgs[j].role \in {"system", "developer"}}}

\* C29: every request handle_anthropic_api sends (first, follow-up, retry)
\* has no system or developer message in its message array and carries the
\* system text in the top-level system field: the caller's instructions, or
\* without instructions the content of the caller's system or developer
\* message
C29_SystemTextOnlyInSystemField ==
    pc = "awaiting" =>
        /\ \A i \in 1..Len(in_flight.messages) :
              in_flight.messages[i].role \notin {"system", "developer"}
        /\ "system" \in DOMAIN in_flight
        /\ instructions \notin {None, ""} => in_flight.system = instructions
        /\ (instructions \in {None, ""} /\ CallerSystemTexts # {}) =>
              in_flight.system \in CallerSystemTexts

\* C29 witness: the retry without tools of a follow-up request, for a caller
\* who passed a developer message and no instructions
C29_Witness ==
    /\ pc = "awaiting" /\ retrying /\ nreq > 2
    /\ user_input = ListInput(<<DeveloperMessage, UserMessage>>)
    /\ instructions = None
    /\ in_flight.system = "Talk like a pirate."
    /\ Len(in_flight.messages) > 1

\* ----------------------------------------------- properties: the decorator
\* the position of the parameter of that name in the signature
PositionOf(signature, name) ==
    CHOOSE i \in 1..Len(signature) : signature[i].name = name

\* required lists, in declaration order, exactly the parameters that have no
\* default or have a description
RequiredAsDeclared(required, signature) ==
    /\ \A j \in 1..Len(required) :
          \E i \in 1..Len(signature) : signature[i].name = required[j]
    /\ \A j, k \in 1..Len(required) :
          j < k => PositionOf(signature, required[j]) < PositionOf(signature, required[k])
    /\ \A i \in 1..Len(signature) :
          (signature[i].default = "empty" \/ signature[i].metadata # <<>>)
              <=> \E j \in 1..Len(required) : required[j] = signature[i].name

\* C30: the required list of the schema llm_tool derives holds, in
\* declaration order, exactly the parameters without a default and the
\* parameters with a description, whether or not these have a default; the
\* schema get_schemas('openai') returns for today() has required = [].
C30_RequiredParameters ==
    /\ pc \in {"decorated", "registered", "listed"} =>
          /\ RequiredAsDeclared(tool_func.openai_tool.function.parameters.required,
                                tool_func.signature)
          /\ RequiredAsDeclared(tool_func.anthropic_tool.input_schema.required,
                                tool_func.signature)
    /\ (pc = "listed" /\ last_call.provider = "openai") =>
          /\ Len(last_call.value) = 1
          /\ RequiredAsDeclared(last_call.value[1].function.parameters.required,
                                tool_func.signature)
          /\ tool_func.__name__ = "today" =>
                last_call.value[1].function.parameters.required = <<>>

\* C30 witness: get_schemas('openai') has returned the schema of a function
\* whose first parameter has a default and a description and whose second
\* has a default only: the first alone is required
C30_Witness ==
    /\ pc = "listed" /\ last_call.provider = "openai"
    /\ Len(tool_func.signature) = 2
    /\ tool_func.signature[1].default # "empty"
    /\ tool_func.signature[1].metadata # <<>>
    /\ tool_func.signature[2].default # "empty"
    /\ tool_func.signature[2].metadata = <<>>
    /\ last_call.value[1].function.parameters.required = <<"arg1">>

\* ------------------------------------- properties: stateful responses turn
\* C31: when the first provider response of a turn has no local function
\* call, the turn has returned after that one request without executing a
\* tool, and the result is the text, token counts and id of that response.
C31_PlainAnswerReturnedAsIs ==
    (response.id = ResponseId(1) /\ LocalCalls(response) = <<>>) =>
        /\ pc = "done"
        /\ nreq = 1
        /\ invoked = <<>> /\ tool_outputs = <<>> /\ running = {}
        /\ result = [text |-> output_text(response),
                     input_tokens |-> response.usage.input_tokens,
                     output_tokens |-> response.usage.output_tokens,
                     response_id |-> response.id]

\* C31 witness: the first response held a file_search item and a message,
\* tools were offered, and the caller who passed resp_0 got resp_1 back
C31_Witness ==
    /\ pc = "done" /\ nreq = 1 /\ tools # <<>>
    /\ response.output = <<FileSearchItem, MessageItem>>
    /\ previous_response_id = "resp_0"
    /\ result.response_id = "resp_1" /\ result.text = "hi"
    /\ result.input_tokens = 11

\* C32: a follow-up request with tool outputs has as previous_response_id
\* the id of the response those tool calls came from, the response received
\* last in the turn, and is sent at a depth one above the request before it.
C32_FollowUpContinuesLastResponse ==
    [][(nreq' = nreq + 1 /\ nreq >= 1) =>
          /\ OutputItemsOf(in_flight') # <<>>
          /\ response.id = ResponseId(nreq)
          /\ LocalCalls(response) # <<>>
          /\ "previous_response_id" \in DOMAIN in_flight'
          /\ in_flight'.previous_response_id = response.id
          /\ previous_response_id' = response.id
          /\ current_tool_call_depth' = current_tool_call_depth + 1
          /\ current_tool_call_depth' = nreq]_vars

\* C32 witness: the second follow-up of a turn whose caller passed resp_0 is
\* with the provider and continues resp_2
C32_Witness ==
    /\ pc = "awaiting" /\ nreq = 3
    /\ in_flight.previous_response_id = "resp_2"
    /\ current_tool_call_depth = 2
    /\ OutputItemsOf(in_flight) # <<>>

\* ------------------------------------ properties: prepare_tools_for_api
\* the last call was prepare_tools_for_api for that api_type and returned
PreparedFor(api_type) ==
    /\ last_call.method = "prepare_tools_for_api"
    /\ last_call.api_type = api_type
    /\ ~last_call.raised

\* the tools of type 'function' in the list given to the last call
FunctionToolsGiven ==
    SelectSeq2(last_call.given,
               [i \in 1..Len(last_call.given) |->
                   /\ "type" \in DOMAIN last_call.given[i]
                   /\ last_call.given[i].type = "function"])

\* C33: prepare_tools_for_api(tools, 'completions') returns the tools of
\* type 'function' in their order and no other tool, and returns no tools
\* when none is of that type.
C33_CompletionsKeepsFunctionTools ==
    PreparedFor("completions") =>
        /\ Len(last_call.value) = Len(FunctionToolsGiven)
        /\ \A i \in 1..Len(last_call.value) :
              /\ last_call.value[i].type = "function"
              /\ last_call.value[i].name = FunctionToolsGiven[i].name
              /\ last_call.value[i].function.description
                    = FunctionToolsGiven[i].function.description
              /\ last_call.value[i].function.parameters
                    = FunctionToolsGiven[i].function.parameters

\* C33 witness: of a custom tool and the schema of today, the call returned
\* the schema of today alone
C33_Witness ==
    /\ PreparedFor("completions")
    /\ last_call.list = <<CustomTool, ToolRef("today")>>
    /\ Len(last_call.value) = 1
    /\ last_call.value[1].name = "today"

\* C34: a call of prepare_tools_for_api, whatever the api_type, leaves the
\* tools it is given as they were, so that get_schemas returns the same for
\* every provider before and after the call.
C34_PrepareLeavesSchemasUnchanged ==
    [][(nops' = nops + 1 /\ last_call'.method = "prepare_tools_for_api") =>
          /\ SchemasByProvider(_tools', _schema_cache', _cache_valid')
                = SchemasByProvider(_tools, _schema_cache, _cache_valid)
          /\ \A i \in 1..Len(last_call'.list) :
                Deref(_tools', last_call'.list[i]) = last_call'.given[i]]_vars

\* ------------------------------------- properties: internal tool types
\* C35: a registry constructed with a set of internal tool types, the empty
\* set included, starts with exactly that set, and only a registry
\* constructed without the argument starts with the default set; from then
\* on add_internal_tool_type adds its type, no call removes or adds any
\* other, and is_internal_tool answers by membership in the set.
C35_ExplicitTypesRespected ==
    /\ IF internal_tool_types.given
       THEN _internal_tool_types = internal_tool_types.types
       ELSE _internal_tool_types = INTERNAL_TOOL_TYPES
    /\ [][/\ _internal_tool_types' =
                (IF Calls("add_internal_tool_type")
                 THEN _internal_tool_types \cup {last_call'.tool_type}
                 ELSE _internal_tool_types)
           /\ Calls("is_internal_tool") =>
                (last_call'.value <=> last_call'.tool_type \in _internal_tool_types)]_vars

\* ---------------------------------- properties: chat completions tool path
\* C36: process_function_calls and prepare_assistant_message_with_tool_calls,
\* given the same calls with distinct provider ids and the same id mapping,
\* produce one tool response per call, in the order of the calls, whose
\* tool_call_id is the id of that call's entry in the assistant message;
\* different calls have different ids, also when the tool is missing or
\* fails.
C36_ToolResponsesMatchAssistantMessage ==
    pc = "prepared" =>
        /\ Len(tool_responses) = Len(function_calls)
        /\ Len(assistant_message.tool_calls) = Len(function_calls)
        /\ \A i \in 1..Len(function_calls) :
              /\ tool_responses[i].tool_call_id = assistant_message.tool_calls[i].id
              /\ assistant_message.tool_calls[i].function.name
                    = (IF "function" \in DOMAIN function_calls[i]
                       THEN function_calls[i].function.name
                       ELSE function_calls[i].name)
              /\ tool_responses[i].tool_call_id # None
        /\ \A i, j \in 1..Len(function_calls) :
              i # j => tool_responses[i].tool_call_id # tool_responses[j].tool_call_id

\* C36 witness: a responses item for a tool that is not registered and a
\* chat tool call for a tool that raises, with the shortened ids
C36_Witness ==
    /\ pc = "prepared" /\ Len(function_calls) = 2
    /\ "call_id" \in DOMAIN function_calls[1] /\ function_calls[1].name = "ghost"
    /\ "call_id" \notin DOMAIN function_calls[2]
    /\ function_calls[2].function.name = "boom"
    /\ tool_responses[1].tool_call_id = ShortId(1)
    /\ tool_responses[2].tool_call_id = ShortId(2)
    /\ tool_responses[2].output = "Error executing tool boom: boom failed"

====
